---- MODULE Spec2Model ----
(***************************************************************************)
(* Model of the live-state engine of tamagoaltchi2: FPLServer (poll        *)
(* scheduler, per-team refresh, scoring rule table, connection registry)   *)
(* and NotificationService (push subscription bookkeeping and delivery).   *)
(* Every await of the code on an upstream or push call is a yield point;   *)
(* code between two such awaits runs as one atomic step, as it does on the *)
(* single-threaded event loop.                                             *)
(***************************************************************************)
EXTENDS Integers, Sequences, FiniteSets, TLC

VARIABLES
  bootstrap,      \* state.bootstrap: [loaded, events, elements]
  fixtures,       \* state.fixtures
  gameweek,       \* state.gameweek: [current, isCurrent, isFinished, liveData]
  teams,          \* state.teams: Map teamId -> TeamState (a function on the keys present)
  clients,        \* FPLServer.clients: Map teamId -> {ws, teamId}, in insertion order
  updateInterval, \* the poll timer: "none", or the mode it was scheduled with
  initPc,         \* position of initializeState
  procs,          \* in-flight async invocations: poll cycles and register handlers
  closed,         \* the WebSockets whose close event has fired
  registered,     \* history: the <<ws, teamId>> registrations made by each connection
  broadcast,      \* the <<ws, teamId>> "update" messages of the latest notifyClients
  subscriptions,  \* NotificationService.subscriptions: Map teamId -> PushSubscription[]
  prevStats,      \* history: per team, the stats each pick had in its last stored refresh
  notified,       \* history: the <<teamId, element, stats>> a notification was dispatched for
  initial,        \* observation: the "initial" message the last step delivered, if any
  lastCall,       \* observation: the upstream answer, NotificationService call or delivery result of the last step
  now,            \* the wall clock, in hours
  env,            \* process.env: the VAPID keys that are set
  fplService      \* the browser's FplService: [pc, events, currentGameweek, gameweekInfo]

vars == <<bootstrap, fixtures, gameweek, teams, clients, updateInterval, initPc,
          procs, closed, registered, broadcast, subscriptions, prevStats, notified,
          initial, lastCall, now, env, fplService>>

\* the state of the server, which the browser's FplService does not touch
serverVars == <<bootstrap, fixtures, gameweek, teams, clients, updateInterval, initPc,
                procs, closed, registered, broadcast, subscriptions, prevStats, notified,
                initial, lastCall, now, env>>

\* ------------------------------------------------------------------ bounds
MaxProcs == 2
MaxNow == 1
MaxEvents == 3
MaxCount == 6
\* the sockets one service creates, and the score callbacks it makes
MaxSockets == 3
MaxCalls == 2

\* ------------------------------------------------------------------ inputs
TeamIds == {"t1", "t2"}
Conns == {"w1", "w2"}
\* data.teamId of a register message that carries no teamId
MissingTeamId == "undefined"
Endpoints == {"e1", "e2"}
PushKeys == {"k1", "k2"}
Outcomes == {"ok", "gone", "error"}
VapidKeys == {"VAPID_PUBLIC_KEY", "VAPID_PRIVATE_KEY"}

TwoHours == 2
LIVE_POLL_INTERVAL == 30000
IDLE_POLL_INTERVAL == 900000

\* --------------------------------------------------------- sequence helpers
Range(s) == {s[i] : i \in 1..Len(s)}

RemoveAt(s, p) == [i \in 1..(Len(s) - 1) |-> IF i < p THEN s[i] ELSE s[i + 1]]

\* a Map as a function on its keys
MapSet(m, k, v) == [x \in DOMAIN m \cup {k} |-> IF x = k THEN v ELSE m[x]]
MapDelete(m, k) == [x \in DOMAIN m \ {k} |-> m[x]]
EmptyMap == [x \in {} |-> 0]


\* ------------------------------------------------------- upstream responses
\* stats of a live element; counters not named are 0
ZeroStats ==
  [minutes |-> 0, goals_scored |-> 0, assists |-> 0, clean_sheets |-> 0,
   goals_conceded |-> 0, saves |-> 0, penalties_saved |-> 0, penalties_missed |-> 0,
   own_goals |-> 0, yellow_cards |-> 0, red_cards |-> 0, bonus |-> 0,
   total_points |-> 0]

\* /api/bootstrap-static/: gameweeks and players (1 GKP, 2 DEF, 3 MID, 4 FWD)
UpstreamBootstrap ==
  [loaded |-> TRUE,
   events |-> <<[id |-> 1, is_current |-> FALSE, finished |-> TRUE],
                [id |-> 2, is_current |-> TRUE, finished |-> FALSE]>>,
   elements |-> <<[id |-> 1, web_name |-> "p1", element_type |-> 3],
                  [id |-> 2, web_name |-> "p2", element_type |-> 1]>>]

\* between gameweeks: gameweek 1 is over and gameweek 2 has not begun
BootstrapNoCurrent ==
  [UpstreamBootstrap EXCEPT
     !.events = <<[id |-> 1, is_current |-> FALSE, finished |-> TRUE],
                  [id |-> 2, is_current |-> FALSE, finished |-> FALSE]>>]

\* the current gameweek is over
BootstrapFinished ==
  [UpstreamBootstrap EXCEPT
     !.events = <<[id |-> 1, is_current |-> FALSE, finished |-> TRUE],
                  [id |-> 2, is_current |-> TRUE, finished |-> TRUE]>>]

Bootstraps == {UpstreamBootstrap, BootstrapNoCurrent, BootstrapFinished}

\* gameweek 1 is the current one and still running
BootstrapEarlier ==
  [UpstreamBootstrap EXCEPT
     !.events = <<[id |-> 1, is_current |-> TRUE, finished |-> FALSE],
                  [id |-> 2, is_current |-> FALSE, finished |-> FALSE]>>]

NullBootstrap == [loaded |-> FALSE, events |-> <<>>, elements |-> <<>>]

\* /api/fixtures/
UpstreamFixtures == <<[event |-> 2, kickoff_time |-> 1], [event |-> 1, kickoff_time |-> 0]>>

\* the only match of gameweek 2 kicked off two hours before time 0
FixturesEnding == <<[event |-> 2, kickoff_time |-> 0 - TwoHours]>>

\* the only match of gameweek 2 kicked off an hour before time 0
FixturesUnderway == <<[event |-> 2, kickoff_time |-> 0 - 1]>>

FixtureLists == {UpstreamFixtures, FixturesEnding, FixturesUnderway}

\* /api/event/{gw}/live/: the snapshots the upstream may return
LiveQuiet ==
  [loaded |-> TRUE,
   elements |-> <<[id |-> 1, stats |-> ZeroStats], [id |-> 2, stats |-> ZeroStats]>>]

LiveGoal ==
  [loaded |-> TRUE,
   elements |-> <<[id |-> 1, stats |-> [ZeroStats EXCEPT !.goals_scored = 1, !.total_points = 5]],
                  [id |-> 2, stats |-> ZeroStats]>>]

LiveSnapshots == {LiveQuiet, LiveGoal}

\* player p1 has scored and the keeper p2 has made three saves
LiveBoth ==
  [loaded |-> TRUE,
   elements |-> <<[id |-> 1, stats |-> [ZeroStats EXCEPT !.goals_scored = 1, !.total_points = 5]],
                  [id |-> 2, stats |-> [ZeroStats EXCEPT !.saves = 3, !.total_points = 1]]>>]

RefreshSnapshots == {LiveQuiet, LiveGoal, LiveBoth}

\* a snapshot without an entry for player 1: the entry of player 2, who has
\* played the whole match, is the first of the list
LiveGapped ==
  [loaded |-> TRUE,
   elements |-> <<[id |-> 2, stats |-> [ZeroStats EXCEPT !.minutes = 90, !.total_points = 2]]>>]

\* element_type of a player: 1..4, 0 for a player without one, 5 for an
\* unknown position
ElementTypes == 0..5

\* bootstrap data in which player p1 has each position
ScoringBootstraps ==
  {[UpstreamBootstrap EXCEPT !.elements[1].element_type = et] : et \in ElementTypes}

MinuteValues == {0, 1, 59, 60, 90}

CounterFields ==
  {"goals_scored", "assists", "clean_sheets", "goals_conceded", "saves", "penalties_saved",
   "penalties_missed", "own_goals", "yellow_cards", "red_cards", "bonus"}

\* stats with one counter set and the others 0
SingleCounterStats ==
       {[ZeroStats EXCEPT !.minutes = m] : m \in MinuteValues}
  \cup {[ZeroStats EXCEPT ![f] = c] : f \in CounterFields, c \in 1..MaxCount}

\* stats in which each of minutes, goals, assists, clean sheets, goals conceded,
\* saves, yellow cards and bonus is 0 or at a value that fires its rule
PlayStats ==
  {[ZeroStats EXCEPT !.minutes = m, !.goals_scored = gs, !.assists = a, !.clean_sheets = cs,
                     !.goals_conceded = gc, !.saves = sv, !.yellow_cards = yc, !.bonus = bn] :
     m \in {0, 90}, gs \in {0, 1}, a \in {0, 1}, cs \in {0, 1}, gc \in {0, 2},
     sv \in {0, 3}, yc \in {0, 1}, bn \in {0, 2}}

\* stats in which each of the penalty, own goal, card and bonus counters is 0
\* or not
DisciplineStats ==
  {[ZeroStats EXCEPT !.penalties_saved = ps, !.penalties_missed = pm, !.own_goals = og,
                     !.yellow_cards = yc, !.red_cards = rc, !.bonus = bn] :
     ps \in {0, 1}, pm \in {0, 1}, og \in {0, 1}, yc \in {0, 1}, rc \in {0, 1},
     bn \in {0, 2}}

CombinedStats == PlayStats \cup DisciplineStats

\* live snapshots in which player p1 has each of these stats
ScoringSnapshots ==
  {[loaded |-> TRUE, elements |-> <<[id |-> 1, stats |-> st], [id |-> 2, stats |-> ZeroStats]>>] :
     st \in SingleCounterStats \cup CombinedStats}

NullLive == [loaded |-> FALSE, elements |-> <<>>]

\* /api/entry/{team}/event/{gw}/picks/
UpstreamPicks(teamId) ==
  IF teamId = "t1" THEN <<[element |-> 1, multiplier |-> 2]>>
  ELSE <<[element |-> 2, multiplier |-> 1], [element |-> 1, multiplier |-> 1]>>

\* the three calls of updateTeamState, and which of them fails
FetchOutcomes == {"ok", "picksFail", "managerFail", "historyFail"}


\* ------------------------------------------------------ scoring rule table
Ev(type, points) == [type |-> type, points |-> points]

Opt(cond, ev) == IF cond THEN <<ev>> ELSE <<>>

\* GoalPoints were a position outside the table to score nothing
GoalPointsZeroDefault(element_type) ==
  CASE element_type = 1 -> 10
    [] element_type = 2 -> 6
    [] element_type = 3 -> 5
    [] element_type = 4 -> 4
    [] OTHER -> 0

\* CleanSheetPoints were a position outside the table to score as a midfielder
CleanSheetPointsOneDefault(element_type) ==
  CASE element_type = 1 -> 4
    [] element_type = 2 -> 4
    [] OTHER -> 1

\* MinutesPoints were the 59th minute to earn the second point
MinutesPointsInclusive(minutes) == IF minutes >= 59 THEN 2 ELSE IF minutes > 0 THEN 1 ELSE 0

GoalPoints(element_type) ==
  CASE element_type = 1 -> 10
    [] element_type = 2 -> 6
    [] element_type = 3 -> 5
    [] element_type = 4 -> 4
    [] OTHER -> 4

CleanSheetPoints(element_type) ==
  CASE element_type = 1 -> 4
    [] element_type = 2 -> 4
    [] element_type = 3 -> 1
    [] OTHER -> 0

MinutesPoints(minutes) == IF minutes > 59 THEN 2 ELSE IF minutes > 0 THEN 1 ELSE 0

\* if (stats.minutes > 0) { points = ...; if (points > 0) processEvent(...) }
MinutesRule(stats) ==
  Opt(stats.minutes > 0 /\ MinutesPoints(stats.minutes) > 0,
      Ev("minutesPlayed", MinutesPoints(stats.minutes)))

\* if (stats.goals_scored > 0)
GoalRule(stats, element_type) ==
  Opt(stats.goals_scored > 0, Ev("goal", stats.goals_scored * GoalPoints(element_type)))

\* if (stats.clean_sheets > 0) { points = ...; if (points > 0) processEvent(...) }
CleanSheetRule(stats, element_type) ==
  Opt(stats.clean_sheets > 0 /\ CleanSheetPoints(element_type) > 0,
      Ev("cleanSheet", CleanSheetPoints(element_type)))

\* GoalsConcededRule were it to apply to every position
GoalsConcededAnyPosition(stats, element_type) ==
  Opt(stats.goals_conceded >= 2, Ev("goalsConceded", (stats.goals_conceded \div 2) * (-1)))

\* if (stats.goals_conceded >= 2 && [1, 2].includes(player.element_type))
GoalsConcededRule(stats, element_type) ==
  Opt(stats.goals_conceded >= 2 /\ element_type \in {1, 2},
      Ev("goalsConceded", (stats.goals_conceded \div 2) * (-1)))

\* SaveRule were it to score every save
SaveRulePerSave(stats, element_type) ==
  Opt(stats.saves >= 3 /\ element_type = 1, Ev("save", stats.saves))

\* if (stats.saves >= 3 && player.element_type === 1)
SaveRule(stats, element_type) ==
  Opt(stats.saves >= 3 /\ element_type = 1, Ev("save", stats.saves \div 3))

\* CounterRule were it to score the factor once, whatever the count
CounterRuleFlat(type, counter, factor) == Opt(counter > 0, Ev(type, factor))

\* if (counter > 0) processEvent(type, counter * factor)
CounterRule(type, counter, factor) == Opt(counter > 0, Ev(type, counter * factor))

\* PlayerEvents were a player scored only while no push subscription exists
PlayerEventsUnlessSubscribed(stats, element_type) ==
  IF subscriptions # EmptyMap THEN <<>>
  ELSE    MinutesRule(stats)
       \o GoalRule(stats, element_type)
       \o CounterRule("assist", stats.assists, 3)
       \o CleanSheetRule(stats, element_type)
       \o GoalsConcededRule(stats, element_type)
       \o SaveRule(stats, element_type)
       \o CounterRule("penaltySave", stats.penalties_saved, 5)
       \o CounterRule("penaltyMiss", stats.penalties_missed, -2)
       \o CounterRule("ownGoal", stats.own_goals, -2)
       \o CounterRule("yellowCard", stats.yellow_cards, -1)
       \o CounterRule("redCard", stats.red_cards, -3)
       \o CounterRule("bonus", stats.bonus, 1)

\* PlayerEvents were the if-statements an else-if chain: the first rule that
\* applies is the only one
PlayerEventsFirstOnly(stats, element_type) ==
  LET all ==    MinutesRule(stats)
             \o GoalRule(stats, element_type)
             \o CounterRule("assist", stats.assists, 3)
             \o CleanSheetRule(stats, element_type)
             \o GoalsConcededRule(stats, element_type)
             \o SaveRule(stats, element_type)
             \o CounterRule("penaltySave", stats.penalties_saved, 5)
             \o CounterRule("penaltyMiss", stats.penalties_missed, -2)
             \o CounterRule("ownGoal", stats.own_goals, -2)
             \o CounterRule("yellowCard", stats.yellow_cards, -1)
             \o CounterRule("redCard", stats.red_cards, -3)
             \o CounterRule("bonus", stats.bonus, 1)
  IN IF all = <<>> THEN <<>> ELSE <<Head(all)>>

\* processPlayerEvents: the (type, points) pairs pushed for one player, in the
\* order of the code's if-statements
PlayerEvents(stats, element_type) ==
     MinutesRule(stats)
  \o GoalRule(stats, element_type)
  \o CounterRule("assist", stats.assists, 3)
  \o CleanSheetRule(stats, element_type)
  \o GoalsConcededRule(stats, element_type)
  \o SaveRule(stats, element_type)
  \o CounterRule("penaltySave", stats.penalties_saved, 5)
  \o CounterRule("penaltyMiss", stats.penalties_missed, -2)
  \o CounterRule("ownGoal", stats.own_goals, -2)
  \o CounterRule("yellowCard", stats.yellow_cards, -1)
  \o CounterRule("redCard", stats.red_cards, -3)
  \o CounterRule("bonus", stats.bonus, 1)

\* the PlayerEvent pushed by processEvent (its timestamp is left out)
Named(evs, player) ==
  [i \in 1..Len(evs) |-> [type |-> evs[i].type, player |-> player, points |-> evs[i].points]]

\* notifyFplEvent: whether the switch gives the event a title and a body
HasTemplate(ev) ==
  CASE ev.type = "minutesPlayed" -> ev.points > 0
    [] ev.type \in {"goal", "assist", "cleanSheet", "save", "penaltySave", "bonus",
                    "ownGoal", "penaltyMiss", "redCard", "yellowCard", "goalsConceded"} -> TRUE
    [] OTHER -> FALSE

\* ---------------------------------------------------- NotificationService
Sub(endpoint, keys) == [endpoint |-> endpoint, keys |-> keys]

EndpointsOf(list) == {list[i].endpoint : i \in 1..Len(list)}

\* teamSubscriptions.some(sub => sub.endpoint === subscription.endpoint)
HasEndpoint(list, endpoint) == \E i \in 1..Len(list) : list[i].endpoint = endpoint

RECURSIVE WithoutEndpoint(_, _)
\* teamSubscriptions.filter(sub => sub.endpoint !== endpoint)
WithoutEndpoint(list, endpoint) ==
  IF list = <<>> THEN <<>>
  ELSE IF Head(list).endpoint # endpoint
       THEN <<Head(list)>> \o WithoutEndpoint(Tail(list), endpoint)
       ELSE WithoutEndpoint(Tail(list), endpoint)

\* AddedSubscription were entries compared as a whole, keys included
AddedComparingKeys(subs, teamId, subscription) ==
  LET teamSubscriptions == IF teamId \in DOMAIN subs THEN subs[teamId] ELSE <<>>
  IN IF subscription \notin Range(teamSubscriptions)
     THEN MapSet(subs, teamId, Append(teamSubscriptions, subscription))
     ELSE subs

\* addSubscription(teamId, subscription): the map afterwards
AddedSubscription(subs, teamId, subscription) ==
  LET teamSubscriptions == IF teamId \in DOMAIN subs THEN subs[teamId] ELSE <<>>
  IN IF ~HasEndpoint(teamSubscriptions, subscription.endpoint)
     THEN MapSet(subs, teamId, Append(teamSubscriptions, subscription))
     ELSE subs

\* RemovedSubscription were the team's whole entry dropped with the endpoint
RemovedWholeTeam(subs, teamId, endpoint) ==
  IF teamId \in DOMAIN subs /\ HasEndpoint(subs[teamId], endpoint)
  THEN MapDelete(subs, teamId)
  ELSE subs

\* RemovedSubscription were the filtered list stored even when it is empty
RemovedKeepingEmpty(subs, teamId, endpoint) ==
  IF teamId \in DOMAIN subs
  THEN MapSet(subs, teamId, WithoutEndpoint(subs[teamId], endpoint))
  ELSE subs

\* removeSubscription(teamId, endpoint): the map afterwards
RemovedSubscription(subs, teamId, endpoint) ==
  IF teamId \in DOMAIN subs
  THEN LET updatedSubscriptions == WithoutEndpoint(subs[teamId], endpoint)
       IN IF Len(updatedSubscriptions) > 0
          THEN MapSet(subs, teamId, updatedSubscriptions)
          ELSE MapDelete(subs, teamId)
  ELSE subs

\* sendNotification: the endpoints a delivery is started to (teamSubscriptions.map)
SendTargets(subs, teamId) ==
  IF teamId \in DOMAIN subs THEN EndpointsOf(subs[teamId]) ELSE {}

\* AfterDeliveryFailure were every rejection taken for a permanent one
AfterAnyFailure(subs, teamId, endpoint, outcome) ==
  RemovedSubscription(subs, teamId, endpoint)

\* the catch block of one delivery: the map after webpush rejected with `outcome`
AfterDeliveryFailure(subs, teamId, endpoint, outcome) ==
  IF outcome = "gone" THEN RemovedSubscription(subs, teamId, endpoint) ELSE subs


\* ------------------------------------------------------------- FplService
\* a gameweek of bootstrapData.events
Event(id, is_current, finished) == [id |-> id, is_current |-> is_current, finished |-> finished]

NoEvent == Event(0, FALSE, FALSE)

\* the event lists bootstrap-static can answer with: ids ascend from 1
EventLists ==
  UNION {[1..n -> BOOLEAN \X BOOLEAN] : n \in 0..MaxEvents}

EventsOf(flags) == [j \in DOMAIN flags |-> Event(j, flags[j][1], flags[j][2])]

\* [...events].reverse()
Reverse(s) == [j \in 1..Len(s) |-> s[Len(s) + 1 - j]]

\* events.find(event => event.is_current), as an index (0: undefined)
FindCurrent(events) ==
  IF \E j \in 1..Len(events) : events[j].is_current
  THEN CHOOSE j \in 1..Len(events) :
         events[j].is_current /\ \A l \in 1..(j - 1) : ~events[l].is_current
  ELSE 0

\* events.find(event => event.finished), as an index (0: undefined)
FindFinished(events) ==
  IF \E j \in 1..Len(events) : events[j].finished
  THEN CHOOSE j \in 1..Len(events) :
         events[j].finished /\ \A l \in 1..(j - 1) : ~events[l].finished
  ELSE 0

\* events.find(event => !event.finished), as an index (0: undefined)
FindUnfinished(events) ==
  IF \E j \in 1..Len(events) : ~events[j].finished
  THEN CHOOSE j \in 1..Len(events) :
         ~events[j].finished /\ \A l \in 1..(j - 1) : events[l].finished
  ELSE 0

Resolved(ev) == [error |-> FALSE, gameweek |-> ev.id, info |-> ev]

\* throw new Error('No gameweek data available')
NoGameweek == [error |-> TRUE, gameweek |-> 0, info |-> NoEvent]

\* findRelevantGameweek were the finished gameweeks searched from the front
FindFirstFinishedGameweek(events) ==
  IF FindCurrent(events) # 0 THEN Resolved(events[FindCurrent(events)])
  ELSE IF FindFinished(events) # 0 THEN Resolved(events[FindFinished(events)])
  ELSE IF FindUnfinished(events) # 0 THEN Resolved(events[FindUnfinished(events)])
  ELSE NoGameweek

\* FplService.findRelevantGameweek
FindRelevantGameweek(events) ==
  IF FindCurrent(events) # 0 THEN Resolved(events[FindCurrent(events)])
  ELSE IF FindFinished(Reverse(events)) # 0
       THEN Resolved(Reverse(events)[FindFinished(Reverse(events))])
  ELSE IF FindUnfinished(events) # 0 THEN Resolved(events[FindUnfinished(events)])
  ELSE NoGameweek

\* the service as constructed
NewFplService ==
  [pc |-> "bootstrap", events |-> <<>>, currentGameweek |-> 0, gameweekInfo |-> NoEvent,
   ws |-> 0, sockets |-> <<>>, onScoresUpdate |-> FALSE, timers |-> 0,
   stopped |-> FALSE, calls |-> 0]

\* ws.close() on socket k of service f (0: no socket): an open or connecting
\* socket starts closing, its close event comes later
CloseSocket(f, k) ==
  IF k # 0 /\ f.sockets[k] \in {"connecting", "open"}
  THEN [f EXCEPT !.sockets[k] = "closing"]
  ELSE f

\* FplService.startLiveUpdates(callback) on service f
StartLive(f) ==
  IF f.gameweekInfo.finished
  THEN [f EXCEPT !.onScoresUpdate = TRUE]
  ELSE [CloseSocket(f, f.ws) EXCEPT !.onScoresUpdate = TRUE,
                                    !.sockets = Append(@, "connecting"),
                                    !.ws = Len(f.sockets) + 1]

\* startLiveUpdates creates no socket beyond the MaxSockets-th
CanStart(f) == f.gameweekInfo.finished \/ Len(f.sockets) < MaxSockets

\* --------------------------------------------------------------- FPLServer
\* an async invocation: a poll cycle (updateState) or a register handler, with the
\* updateTeamState call it is awaiting
IdleProc ==
  [kind |-> "idle", src |-> "none", mode |-> "none", it |-> 0, visited |-> {},
   ws |-> "none", team |-> "none", pc |-> "none", picks |-> <<>>, idx |-> 0,
   curEl |-> 0, evq |-> <<>>, events |-> <<>>, liveScore |-> 0, seen |-> EmptyMap,
   pending |-> {}]

NoCall == [op |-> "none", team |-> "none", endpoint |-> "none", outcome |-> "none"]

Call(op, teamId, endpoint, outcome) ==
  [op |-> op, team |-> teamId, endpoint |-> endpoint, outcome |-> outcome]

Procs == 1..MaxProcs

FreeSlots == {i \in Procs : procs[i].kind = "idle"}

\* slots are taken lowest first
FreeSlot == CHOOSE i \in FreeSlots : \A j \in FreeSlots : i <= j

ClientTeams == {clients[j].teamId : j \in 1..Len(clients)}

ClientIdx(teamId) == CHOOSE j \in 1..Len(clients) : clients[j].teamId = teamId

\* events.find(event => event.is_current), as an index (0: undefined)
CurrentGwIdx(b) ==
  IF \E j \in 1..Len(b.events) : b.events[j].is_current
  THEN CHOOSE j \in 1..Len(b.events) :
         b.events[j].is_current /\ \A l \in 1..(j - 1) : ~b.events[l].is_current
  ELSE 0

\* isLiveGameweek were the finished flag of the current gameweek not looked at
IsLiveWhateverFinished ==
  IF ~bootstrap.loaded THEN FALSE
  ELSE IF CurrentGwIdx(bootstrap) = 0 THEN FALSE
  ELSE \E j \in 1..Len(fixtures) :
         /\ fixtures[j].event = bootstrap.events[CurrentGwIdx(bootstrap)].id
         /\ now >= fixtures[j].kickoff_time
         /\ now <= fixtures[j].kickoff_time + TwoHours

\* FPLServer.isLiveGameweek
IsLiveGameweek ==
  IF ~bootstrap.loaded THEN FALSE
  ELSE IF CurrentGwIdx(bootstrap) = 0 THEN FALSE
  ELSE LET currentGw == bootstrap.events[CurrentGwIdx(bootstrap)]
           hasLiveFixtures ==
             \E j \in 1..Len(fixtures) :
               /\ fixtures[j].event = currentGw.id
               /\ now >= fixtures[j].kickoff_time
               /\ now <= fixtures[j].kickoff_time + TwoHours
       IN hasLiveFixtures /\ ~currentGw.finished

PollMode == IF IsLiveGameweek THEN "live" ELSE "idle"

PollInterval(mode) == IF mode = "live" THEN LIVE_POLL_INTERVAL ELSE IDLE_POLL_INTERVAL

\* updateState entered: it runs up to its first await, the bootstrap request
NewCycle(src, mode) == [IdleProc EXCEPT !.kind = "cycle", !.src = src, !.mode = mode, !.pc = "bootstrap"]

\* updateTeamState(teamId) entered: it runs up to its first await, the picks request
StartTask(p, teamId) ==
  [p EXCEPT !.team = teamId, !.pc = "fetch", !.picks = <<>>, !.idx = 1, !.curEl = 0,
            !.evq = <<>>, !.events = <<>>, !.liveScore = 0, !.seen = EmptyMap,
            !.pending = {}]

\* this.state.gameweek.liveData?.elements[pick.element - 1] (0: undefined)
LiveIdx(pick) ==
  IF gameweek.liveData.loaded /\ pick.element \in 1..Len(gameweek.liveData.elements)
  THEN pick.element ELSE 0

\* this.state.bootstrap.elements.find(e => e.id === playerData.id) (0: undefined)
PlayerIdx(id) ==
  IF \E j \in 1..Len(bootstrap.elements) : bootstrap.elements[j].id = id
  THEN CHOOSE j \in 1..Len(bootstrap.elements) :
         bootstrap.elements[j].id = id /\ \A l \in 1..(j - 1) : bootstrap.elements[l].id # id
  ELSE 0

RECURSIVE RunTask(_, _)
\* updateTeamState from a resumption to its next await on a push delivery
\* (pc "deliver"), to teams.set (pc "store") or to its catch block (pc "failed").
\* subs is the subscription map as the resuming step leaves it.
\* The resumed invocation k0 is bound once, as k, for the whole step.
RunTask(k0, subs) ==
  CHOOSE r \in {
  IF k.evq # <<>> THEN
    \* processEvent: events.push, then notifyFplEvent -> sendNotification
    LET ev == Head(k.evq)
        k1 == [k EXCEPT !.events = Append(@, ev), !.evq = Tail(@)]
    IN IF HasTemplate(ev) /\ SendTargets(subs, k.team) # {}
       THEN [k1 EXCEPT !.pc = "deliver", !.pending = SendTargets(subs, k.team)]
       ELSE RunTask(k1, subs)
  ELSE IF k.idx <= Len(k.picks) THEN
    LET pick == k.picks[k.idx]
        li == LiveIdx(pick)
    IN IF li = 0 THEN RunTask([k EXCEPT !.idx = @ + 1], subs)
       ELSE LET playerLiveData == gameweek.liveData.elements[li]
                stats == playerLiveData.stats
                k1 == [k EXCEPT !.idx = @ + 1, !.curEl = pick.element,
                                !.liveScore = @ + stats.total_points * pick.multiplier,
                                !.seen = MapSet(@, pick.element, stats)]
            IN IF ~bootstrap.loaded THEN [k1 EXCEPT !.pc = "failed"]
               ELSE LET pi == PlayerIdx(playerLiveData.id)
                    IN IF pi = 0 THEN RunTask(k1, subs)
                       ELSE RunTask([k1 EXCEPT !.evq =
                              Named(PlayerEvents(stats, bootstrap.elements[pi].element_type),
                                    bootstrap.elements[pi].web_name)], subs)
  ELSE [k EXCEPT !.pc = "store"]
  : k \in {k0}} : TRUE

\* TeamStateOf were the events appended to the list stored before
TeamStateAccumulating(k) ==
  [picks |-> k.picks, liveScore |-> k.liveScore,
   events |-> (IF k.team \in DOMAIN teams THEN teams[k.team].events ELSE <<>>) \o k.events,
   gameweek |-> gameweek.current, manager |-> k.team, history |-> k.team]

\* the TeamState written by this.state.teams.set
TeamStateOf(k) ==
  [picks |-> k.picks, liveScore |-> k.liveScore, events |-> k.events,
   gameweek |-> gameweek.current, manager |-> k.team, history |-> k.team]

\* notifyClients: the "update" messages sent, given the team state map
NotifyClients(tm) ==
  {<<clients[j].ws, clients[j].teamId>> : j \in {l \in 1..Len(clients) :
      clients[l].teamId \in DOMAIN tm /\ clients[l].ws \notin closed}}


\* no "initial" message
NoMessage == [ws |-> "none", teamId |-> "none", picks |-> <<>>]

\* the "initial" message of the register handler: ws.send of the team state
InitialMessage(w, teamState) ==
  [ws |-> w, teamId |-> teamState.manager, picks |-> teamState.picks]

\* the connection handler and the routes are installed and the server listens
Serving == initPc \notin {"construct", "crashed"}

\* ------------------------------------------------------------ continuations
\* the timer callback after `await this.updateState()`, or the end of the
\* immediate update: a changed mode restarts polling, whose immediate update
\* takes this invocation's place
EndCycle(i, p) ==
  IF p.src = "tick" /\ PollMode # p.mode
  THEN /\ updateInterval' = PollMode
       /\ procs' = [procs EXCEPT ![i] = NewCycle("immediate", "none")]
  ELSE /\ procs' = [procs EXCEPT ![i] = IdleProc]
       /\ UNCHANGED updateInterval

\* the for-of loop of updateState over this.clients, then notifyClients
LoopOrNotify(i, p, tm) ==
  IF p.it < Len(clients)
  THEN /\ procs' = [procs EXCEPT ![i] =
            StartTask([p EXCEPT !.it = @ + 1, !.visited = @ \cup {clients[p.it + 1].teamId}],
                      clients[p.it + 1].teamId)]
       /\ UNCHANGED <<updateInterval, broadcast>>
  ELSE /\ broadcast' = NotifyClients(tm)
       /\ EndCycle(i, p)

\* SendInitial were the snapshot sent only for a team that had no state before
SendInitialUnlessCached(i, p, tm) ==
  /\ procs' = [procs EXCEPT ![i] = IdleProc]
  /\ initial' = IF p.team \in DOMAIN tm /\ p.team \notin DOMAIN teams /\ p.ws \notin closed
                THEN InitialMessage(p.ws, tm[p.team])
                ELSE NoMessage
  /\ UNCHANGED <<updateInterval, broadcast>>

\* the register handler after `await this.updateTeamState(teamId)`: the "initial"
\* message is sent when the team has state, and the handler returns
SendInitial(i, p, tm) ==
  /\ procs' = [procs EXCEPT ![i] = IdleProc]
  /\ initial' = IF p.team \in DOMAIN tm /\ p.ws \notin closed
                THEN InitialMessage(p.ws, tm[p.team])
                ELSE NoMessage
  /\ UNCHANGED <<updateInterval, broadcast>>

\* AfterTask were updateTeamState to let a failed fetch escape: the error
\* reaches the catch of updateState, which ends the cycle
AfterTaskUncaught(i, k) ==
  IF k.pc = "deliver"
  THEN /\ procs' = [procs EXCEPT ![i] = k]
       /\ UNCHANGED <<teams, prevStats, updateInterval, broadcast>>
       /\ initial' = NoMessage
       /\ notified' = notified \cup {<<k.team, k.curEl, k.seen[k.curEl]>>}
  ELSE IF k.pc = "failed" /\ k.kind = "cycle"
  THEN /\ EndCycle(i, k)
       /\ initial' = NoMessage
       /\ UNCHANGED <<teams, prevStats, notified, broadcast>>
  ELSE LET tm == IF k.pc = "store" THEN MapSet(teams, k.team, TeamStateOf(k)) ELSE teams
       IN /\ teams' = tm
          /\ prevStats' = IF k.pc = "store" THEN [prevStats EXCEPT ![k.team] = k.seen]
                          ELSE prevStats
          /\ UNCHANGED notified
          /\ IF k.kind = "register" THEN SendInitial(i, k, tm)
             ELSE LoopOrNotify(i, k, tm) /\ initial' = NoMessage

\* AfterTask were the catch block of updateTeamState to drop the team's entry
AfterTaskDroppingState(i, k) ==
  IF k.pc = "deliver"
  THEN /\ procs' = [procs EXCEPT ![i] = k]
       /\ notified' = notified \cup {<<k.team, k.curEl, k.seen[k.curEl]>>}
       /\ UNCHANGED <<teams, prevStats, updateInterval, broadcast>>
       /\ initial' = NoMessage
  ELSE LET tm == IF k.pc = "store" THEN MapSet(teams, k.team, TeamStateOf(k))
                 ELSE MapDelete(teams, k.team)
       IN /\ teams' = tm
          /\ prevStats' = IF k.pc = "store" THEN [prevStats EXCEPT ![k.team] = k.seen]
                          ELSE prevStats
          /\ UNCHANGED notified
          /\ IF k.kind = "register" THEN SendInitial(i, k, tm)
             ELSE LoopOrNotify(i, k, tm) /\ initial' = NoMessage

\* what follows a resumption of updateTeamState that left it as k
AfterTask(i, k) ==
  IF k.pc = "deliver"
  THEN /\ procs' = [procs EXCEPT ![i] = k]
       /\ UNCHANGED <<teams, prevStats, updateInterval, broadcast>>
       /\ initial' = NoMessage
       /\ notified' = notified \cup {<<k.team, k.curEl, k.seen[k.curEl]>>}
  ELSE LET tm == IF k.pc = "store" THEN MapSet(teams, k.team, TeamStateOf(k)) ELSE teams
       IN /\ teams' = tm
          /\ prevStats' = IF k.pc = "store" THEN [prevStats EXCEPT ![k.team] = k.seen]
                          ELSE prevStats
          /\ UNCHANGED notified
          /\ IF k.kind = "register" THEN SendInitial(i, k, tm)
             ELSE LoopOrNotify(i, k, tm) /\ initial' = NoMessage

\* ------------------------------------------------------------------ actions
Init ==
  /\ bootstrap = NullBootstrap
  /\ fixtures = <<>>
  /\ gameweek = [current |-> 0, isCurrent |-> FALSE, isFinished |-> FALSE, liveData |-> NullLive]
  /\ teams = EmptyMap
  /\ clients = <<>>
  /\ updateInterval = "none"
  /\ initPc = "bootstrap"
  /\ procs = [i \in Procs |-> IdleProc]
  /\ closed = {}
  /\ registered = {}
  /\ broadcast = {}
  /\ subscriptions = EmptyMap
  /\ prevStats = [t \in TeamIds |-> EmptyMap]
  /\ notified = {}
  /\ initial = NoMessage
  /\ lastCall = NoCall
  /\ now = 0
  /\ env = VapidKeys
  /\ fplService = NewFplService

\* the process before the module's top-level code has run, with any of the
\* VAPID keys set in its environment
InitProcess ==
  /\ bootstrap = NullBootstrap
  /\ fixtures = <<>>
  /\ gameweek = [current |-> 0, isCurrent |-> FALSE, isFinished |-> FALSE, liveData |-> NullLive]
  /\ teams = EmptyMap
  /\ clients = <<>>
  /\ updateInterval = "none"
  /\ initPc = "construct"
  /\ procs = [i \in Procs |-> IdleProc]
  /\ closed = {}
  /\ registered = {}
  /\ broadcast = {}
  /\ subscriptions = EmptyMap
  /\ prevStats = [t \in TeamIds |-> EmptyMap]
  /\ notified = {}
  /\ initial = NoMessage
  /\ lastCall = NoCall
  /\ now = 0
  /\ env \in SUBSET VapidKeys
  /\ fplService = NewFplService

\* Construct were the NotificationService constructor to go on without the keys
ConstructDisablingPush ==
  /\ initPc = "construct"
  /\ initPc' = "bootstrap"
  /\ lastCall' = NoCall
  /\ initial' = NoMessage
  /\ UNCHANGED <<fplService, env>>
  /\ UNCHANGED <<bootstrap, fixtures, gameweek, teams, clients, updateInterval, procs, closed,
                 registered, broadcast, subscriptions, prevStats, notified, now>>

\* new FPLServer(wss) at the top level of the module: the NotificationService
\* constructor throws without both VAPID keys, which ends the process before
\* setupWebSocketServer, initializeState, the routes and server.listen;
\* otherwise the constructor returns with the bootstrap request in flight
Construct ==
  /\ initPc = "construct"
  /\ initPc' = IF VapidKeys \subseteq env THEN "bootstrap" ELSE "crashed"
  /\ lastCall' = NoCall
  /\ initial' = NoMessage
  /\ UNCHANGED <<fplService, env>>
  /\ UNCHANGED <<bootstrap, fixtures, gameweek, teams, clients, updateInterval, procs, closed,
                 registered, broadcast, subscriptions, prevStats, notified, now>>

\* initializeState: the bootstrap request settles
InitBootstrap(o, b) ==
  /\ initPc = "bootstrap"
  /\ IF o = "ok"
     THEN /\ bootstrap' = b
          /\ IF CurrentGwIdx(b) = 0
             THEN initPc' = "failed" /\ UNCHANGED gameweek
             ELSE LET currentGw == b.events[CurrentGwIdx(b)]
                  IN /\ gameweek' = [gameweek EXCEPT !.current = currentGw.id,
                                                     !.isCurrent = TRUE,
                                                     !.isFinished = currentGw.finished]
                     /\ initPc' = "fixtures"
     ELSE initPc' = "failed" /\ UNCHANGED <<bootstrap, gameweek>>
  /\ lastCall' = Call("bootstrap", "none", "none", o)
  /\ initial' = NoMessage
  /\ UNCHANGED <<fplService, env>>
  /\ UNCHANGED <<fixtures, teams, clients, updateInterval, procs, closed, registered,
                 broadcast, subscriptions, prevStats, notified, now>>

\* initializeState: the fixtures request settles
InitFixtures(o, f) ==
  /\ initPc = "fixtures"
  /\ IF o = "ok" THEN fixtures' = f /\ initPc' = "live"
     ELSE initPc' = "failed" /\ UNCHANGED fixtures
  /\ lastCall' = Call("fixtures", "none", "none", o)
  /\ initial' = NoMessage
  /\ UNCHANGED <<fplService, env>>
  /\ UNCHANGED <<bootstrap, gameweek, teams, clients, updateInterval, procs, closed,
                 registered, broadcast, subscriptions, prevStats, notified, now>>

\* initializeState: updateLiveData settles, then startPolling sets the timer and
\* issues the immediate update
InitLive(o, snap) ==
  /\ initPc = "live"
  /\ FreeSlots # {}
  /\ gameweek' = IF o = "ok" THEN [gameweek EXCEPT !.liveData = snap] ELSE gameweek
  /\ updateInterval' = PollMode
  /\ procs' = [procs EXCEPT ![FreeSlot] = NewCycle("immediate", "none")]
  /\ initPc' = "done"
  /\ lastCall' = Call("live", "none", "none", o)
  /\ initial' = NoMessage
  /\ UNCHANGED <<fplService, env>>
  /\ UNCHANGED <<bootstrap, fixtures, teams, clients, closed, registered, broadcast,
                 subscriptions, prevStats, notified, now>>

\* the setInterval timer fires: the callback calls updateState
Tick ==
  /\ updateInterval # "none"
  /\ FreeSlots # {}
  /\ procs' = [procs EXCEPT ![FreeSlot] = NewCycle("tick", updateInterval)]
  /\ lastCall' = NoCall
  /\ initial' = NoMessage
  /\ UNCHANGED <<fplService, env>>
  /\ UNCHANGED <<bootstrap, fixtures, gameweek, teams, clients, updateInterval, initPc,
                 closed, registered, broadcast, subscriptions, prevStats, notified, now>>

\* CycleBootstrap were updateState to resolve the gameweek again from the
\* refreshed reference data
CycleBootstrapResolving(i, o, b) ==
  /\ procs[i].kind = "cycle" /\ procs[i].pc = "bootstrap"
  /\ IF o = "ok"
     THEN /\ bootstrap' = b
          /\ gameweek' = IF CurrentGwIdx(b) = 0 THEN gameweek
                         ELSE [gameweek EXCEPT !.current = b.events[CurrentGwIdx(b)].id,
                                               !.isCurrent = TRUE,
                                               !.isFinished = b.events[CurrentGwIdx(b)].finished]
          /\ procs' = [procs EXCEPT ![i].pc = "fixtures"]
          /\ UNCHANGED updateInterval
     ELSE EndCycle(i, procs[i]) /\ UNCHANGED <<bootstrap, gameweek>>
  /\ lastCall' = Call("bootstrap", "none", "none", o)
  /\ initial' = NoMessage
  /\ UNCHANGED <<fplService, env>>
  /\ UNCHANGED <<fixtures, teams, clients, initPc, closed, registered,
                 broadcast, subscriptions, prevStats, notified, now>>

\* updateState: the bootstrap request settles
CycleBootstrap(i, o, b) ==
  /\ procs[i].kind = "cycle" /\ procs[i].pc = "bootstrap"
  /\ IF o = "ok"
     THEN /\ bootstrap' = b
          /\ procs' = [procs EXCEPT ![i].pc = "fixtures"]
          /\ UNCHANGED updateInterval
     ELSE EndCycle(i, procs[i]) /\ UNCHANGED bootstrap
  /\ lastCall' = Call("bootstrap", "none", "none", o)
  /\ initial' = NoMessage
  /\ UNCHANGED <<fplService, env>>
  /\ UNCHANGED <<fixtures, gameweek, teams, clients, initPc, closed, registered,
                 broadcast, subscriptions, prevStats, notified, now>>

\* updateState: the fixtures request settles
CycleFixtures(i, o, f) ==
  /\ procs[i].kind = "cycle" /\ procs[i].pc = "fixtures"
  /\ IF o = "ok"
     THEN /\ fixtures' = f
          /\ procs' = [procs EXCEPT ![i].pc = "live"]
          /\ UNCHANGED updateInterval
     ELSE EndCycle(i, procs[i]) /\ UNCHANGED fixtures
  /\ lastCall' = Call("fixtures", "none", "none", o)
  /\ initial' = NoMessage
  /\ UNCHANGED <<fplService, env>>
  /\ UNCHANGED <<bootstrap, gameweek, teams, clients, initPc, closed, registered,
                 broadcast, subscriptions, prevStats, notified, now>>

\* updateState: updateLiveData settles (it catches its own failure), then the
\* loop over the clients starts
CycleLive(i, o, snap) ==
  /\ procs[i].kind = "cycle" /\ procs[i].pc = "live"
  /\ gameweek' = IF o = "ok" THEN [gameweek EXCEPT !.liveData = snap] ELSE gameweek
  /\ LoopOrNotify(i, procs[i], teams)
  /\ lastCall' = Call("live", "none", "none", o)
  /\ initial' = NoMessage
  /\ UNCHANGED <<fplService, env>>
  /\ UNCHANGED <<bootstrap, fixtures, teams, clients, initPc, closed, registered,
                 subscriptions, prevStats, notified, now>>

\* updateTeamState: the picks, manager and history requests settle
TaskFetch(i, o) ==
  /\ procs[i].pc = "fetch"
  /\ \E k \in {IF o = "ok"
                THEN RunTask([procs[i] EXCEPT !.picks = UpstreamPicks(procs[i].team)],
                             subscriptions)
                ELSE [procs[i] EXCEPT !.pc = "failed"]} : AfterTask(i, k)
  /\ lastCall' = Call("team", procs[i].team, "none", o)
  /\ UNCHANGED <<fplService, env>>
  /\ UNCHANGED <<bootstrap, fixtures, gameweek, clients, initPc, closed, registered,
                 subscriptions, now>>

\* Settled were a rejection to reject Promise.all: the deliveries still
\* awaited are abandoned
SettledAbandoning(p, e, o) ==
  [p EXCEPT !.pending = IF o = "ok" THEN @ \ {e} ELSE {}]

\* sendNotification after the delivery to e settled with outcome o, which the
\* try/catch of that delivery absorbs: the other deliveries stay awaited
Settled(p, e, o) == [p EXCEPT !.pending = @ \ {e}]

\* sendNotification: the delivery to one endpoint settles; when it was the last
\* one outstanding, Promise.all resolves and updateTeamState goes on
Deliver(i, e, o) ==
  /\ procs[i].pc = "deliver"
  /\ e \in procs[i].pending
  /\ LET subs == IF o = "ok" THEN subscriptions
                 ELSE AfterDeliveryFailure(subscriptions, procs[i].team, e, o)
         k == Settled(procs[i], e, o)
     IN /\ subscriptions' = subs
        /\ IF k.pending # {}
           THEN /\ procs' = [procs EXCEPT ![i] = k]
                /\ initial' = NoMessage
                /\ UNCHANGED <<teams, prevStats, notified, updateInterval, broadcast>>
           ELSE \E k1 \in {RunTask(k, subs)} : AfterTask(i, k1)
  /\ lastCall' = Call("deliver", procs[i].team, e, o)
  /\ UNCHANGED <<fplService, env>>
  /\ UNCHANGED <<bootstrap, fixtures, gameweek, clients, initPc, closed, registered, now>>

\* this.clients.set(teamId, { ws, teamId }): a present key keeps its place
ClientsSet(teamId, w) ==
  IF teamId \in ClientTeams
  THEN [clients EXCEPT ![ClientIdx(teamId)] = [ws |-> w, teamId |-> teamId]]
  ELSE Append(clients, [ws |-> w, teamId |-> teamId])

\* ws.on('message') with { type: "register", teamId }: the handler up to its
\* await of updateTeamState
Register(w, teamId) ==
  /\ Serving
  /\ w \notin closed
  /\ FreeSlots # {}
  /\ clients' = ClientsSet(teamId, w)
  /\ registered' = registered \cup {<<w, teamId>>}
  /\ procs' = [procs EXCEPT ![FreeSlot] =
        StartTask([IdleProc EXCEPT !.kind = "register", !.ws = w], teamId)]
  /\ lastCall' = NoCall
  /\ initial' = NoMessage
  /\ UNCHANGED <<fplService, env>>
  /\ UNCHANGED <<bootstrap, fixtures, gameweek, teams, updateInterval, initPc, closed,
                 broadcast, subscriptions, prevStats, notified, now>>

\* the index of the first entry of this.clients whose client.ws === ws (0: none)
FirstClientOf(w) ==
  IF \E j \in 1..Len(clients) : clients[j].ws = w
  THEN CHOOSE j \in 1..Len(clients) :
         clients[j].ws = w /\ \A l \in 1..(j - 1) : clients[l].ws # w
  ELSE 0

\* a Map iterator over this.clients after the entry at position q is deleted
IteratorAfterDelete(p, q) ==
  IF p.kind = "cycle" /\ p.it >= q THEN [p EXCEPT !.it = @ - 1] ELSE p

\* ws.on('close')
Close(w) ==
  /\ Serving
  /\ w \notin closed
  /\ closed' = closed \cup {w}
  /\ registered' = {r \in registered : r[1] # w}
  /\ IF FirstClientOf(w) = 0 THEN UNCHANGED <<clients, procs>>
     ELSE /\ clients' = RemoveAt(clients, FirstClientOf(w))
          /\ procs' = [i \in Procs |-> IteratorAfterDelete(procs[i], FirstClientOf(w))]
  /\ lastCall' = NoCall
  /\ initial' = NoMessage
  /\ UNCHANGED <<fplService, env>>
  /\ UNCHANGED <<bootstrap, fixtures, gameweek, teams, updateInterval, initPc,
                 broadcast, subscriptions, prevStats, notified, now>>

\* POST /api/push/subscribe
AddSubscription(teamId, subscription) ==
  /\ Serving
  /\ subscriptions' = AddedSubscription(subscriptions, teamId, subscription)
  /\ lastCall' = Call("add", teamId, subscription.endpoint, "none")
  /\ initial' = NoMessage
  /\ UNCHANGED <<fplService, env>>
  /\ UNCHANGED <<bootstrap, fixtures, gameweek, teams, clients, updateInterval, initPc,
                 procs, closed, registered, broadcast, prevStats, notified, now>>

\* DELETE /api/push/unsubscribe
RemoveSubscription(teamId, endpoint) ==
  /\ Serving
  /\ subscriptions' = RemovedSubscription(subscriptions, teamId, endpoint)
  /\ lastCall' = Call("remove", teamId, endpoint, "none")
  /\ initial' = NoMessage
  /\ UNCHANGED <<fplService, env>>
  /\ UNCHANGED <<bootstrap, fixtures, gameweek, teams, clients, updateInterval, initPc,
                 procs, closed, registered, broadcast, prevStats, notified, now>>

\* time passes
Clock ==
  /\ now < MaxNow
  /\ now' = now + 1
  /\ lastCall' = NoCall
  /\ initial' = NoMessage
  /\ UNCHANGED <<fplService, env>>
  /\ UNCHANGED <<bootstrap, fixtures, gameweek, teams, clients, updateInterval, initPc,
                 procs, closed, registered, broadcast, subscriptions, prevStats, notified>>

\* FplService.initialize: bootstrap-static answers with `events`; the gameweek is
\* resolved and the picks are requested, or the resolution throws and
\* initialize fails
FplBootstrap(events) ==
  /\ fplService.pc = "bootstrap"
  /\ LET r == FindRelevantGameweek(events)
     IN fplService' = IF r.error
                      THEN [fplService EXCEPT !.pc = "failed", !.events = events]
                      ELSE [fplService EXCEPT !.pc = "picks", !.events = events,
                                              !.currentGameweek = r.gameweek,
                                              !.gameweekInfo = r.info]
  /\ UNCHANGED serverVars

\* FplService.initialize: the picks request, then the live request, settle
FplFetch(o) ==
  /\ fplService.pc \in {"picks", "live"}
  /\ fplService' = [fplService EXCEPT !.pc = IF o # "ok" THEN "failed"
                                             ELSE IF @ = "picks" THEN "live" ELSE "ready"]
  /\ UNCHANGED serverVars

\* the application calls startLiveUpdates(callback)
StartLiveUpdates ==
  /\ CanStart(fplService)
  /\ fplService' = [StartLive(fplService) EXCEPT !.stopped = FALSE]
  /\ UNCHANGED serverVars

\* the application calls stopLiveUpdates(), directly or through cleanup()
StopLiveUpdates ==
  /\ fplService' = [CloseSocket(fplService, fplService.ws) EXCEPT
                      !.ws = 0, !.onScoresUpdate = FALSE, !.stopped = TRUE]
  /\ UNCHANGED serverVars

\* socket k connects: its onopen handler runs
SocketOpen(k) ==
  /\ k \in 1..Len(fplService.sockets)
  /\ fplService.sockets[k] = "connecting"
  /\ fplService' = [fplService EXCEPT !.sockets[k] = "open"]
  /\ UNCHANGED serverVars

\* a message of the given type arrives on the open socket k: its onmessage
\* handler invokes the score callback for an "update" while a callback is set
SocketMessage(k, type) ==
  /\ k \in 1..Len(fplService.sockets)
  /\ fplService.sockets[k] = "open"
  /\ IF type = "update" /\ fplService.onScoresUpdate
     THEN /\ fplService.calls < MaxCalls
          /\ fplService' = [fplService EXCEPT !.calls = @ + 1]
     ELSE UNCHANGED fplService
  /\ UNCHANGED serverVars

\* the close event of socket k (closed by the service, by the server or by a
\* failure): its onclose handler sets the reconnect timer
SocketClose(k) ==
  /\ k \in 1..Len(fplService.sockets)
  /\ fplService.sockets[k] # "closed"
  /\ fplService' = [fplService EXCEPT !.sockets[k] = "closed", !.timers = @ + 1]
  /\ UNCHANGED serverVars

\* a reconnect timer fires: startLiveUpdates(callback) is called again
ReconnectTimer ==
  /\ fplService.timers > 0
  /\ CanStart(fplService)
  /\ fplService' = [StartLive(fplService) EXCEPT !.timers = @ - 1]
  /\ UNCHANGED serverVars

\* ----------------------------------------------------------- specifications
\* The poll engine: timer ticks and overlapping cycles, two connections that each
\* register their own team, connection close, every upstream call failing or not.
NextPoll ==
  \/ \E o \in {"ok", "fail"} : InitBootstrap(o, UpstreamBootstrap)
  \/ \E o \in {"ok", "fail"} : InitFixtures(o, UpstreamFixtures)
  \/ \E o \in {"ok", "fail"}, snap \in LiveSnapshots : InitLive(o, snap)
  \/ Tick
  \/ \E i \in Procs, o \in {"ok", "fail"} : CycleBootstrap(i, o, UpstreamBootstrap)
  \/ \E i \in Procs, o \in {"ok", "fail"} : CycleFixtures(i, o, UpstreamFixtures)
  \/ \E i \in Procs, o \in {"ok", "fail"}, snap \in LiveSnapshots : CycleLive(i, o, snap)
  \/ \E i \in Procs, o \in FetchOutcomes : TaskFetch(i, o)
  \/ \E r \in {<<"w1", "t1">>, <<"w2", "t2">>} : Register(r[1], r[2])
  \/ \E w \in Conns : Close(w)

Spec == Init /\ [][NextPoll]_vars

\* The connection registry: two connections that register the same team.
NextRegistry ==
  \/ \E o \in {"ok", "fail"} : InitBootstrap(o, UpstreamBootstrap)
  \/ \E o \in {"ok", "fail"} : InitFixtures(o, UpstreamFixtures)
  \/ \E o \in {"ok", "fail"} : InitLive(o, LiveGoal)
  \/ Tick
  \/ \E i \in Procs, o \in {"ok", "fail"} : CycleBootstrap(i, o, UpstreamBootstrap)
  \/ \E i \in Procs, o \in {"ok", "fail"} : CycleFixtures(i, o, UpstreamFixtures)
  \/ \E i \in Procs, o \in {"ok", "fail"} : CycleLive(i, o, LiveGoal)
  \/ \E i \in Procs, o \in FetchOutcomes : TaskFetch(i, o)
  \/ \E w \in Conns : Register(w, "t1")
  \/ \E w \in Conns : Close(w)
  \/ Clock

SpecRegistry == Init /\ [][NextRegistry]_vars

\* the (team, subscription) pairs POSTed to /api/push/subscribe
PushSubInputs ==
  {<<"t1", Sub("e1", "k1")>>, <<"t1", Sub("e1", "k2")>>, <<"t1", Sub("e2", "k1")>>,
   <<"t2", Sub("e1", "k1")>>}

\* The notification path: one connection registering team t1, push subscriptions
\* of both teams added and removed at any time, every delivery succeeding,
\* failing with 410 or failing otherwise.  lastCall observes each call.
NextPush ==
  \/ \E o \in {"ok", "fail"} : InitBootstrap(o, UpstreamBootstrap)
  \/ \E o \in {"ok", "fail"} : InitFixtures(o, UpstreamFixtures)
  \/ \E o \in {"ok", "fail"} : InitLive(o, LiveGoal)
  \/ Tick
  \/ \E i \in Procs, o \in {"ok", "fail"} : CycleBootstrap(i, o, UpstreamBootstrap)
  \/ \E i \in Procs, o \in {"ok", "fail"} : CycleFixtures(i, o, UpstreamFixtures)
  \/ \E i \in Procs, o \in {"ok", "fail"} : CycleLive(i, o, LiveGoal)
  \/ \E i \in Procs, o \in FetchOutcomes : TaskFetch(i, o)
  \/ Register("w1", "t1")
  \/ \E i \in Procs, e \in Endpoints, o \in Outcomes : Deliver(i, e, o)
  \/ \E x \in PushSubInputs : AddSubscription(x[1], x[2])
  \/ \E t \in TeamIds, e \in Endpoints : RemoveSubscription(t, e)

SpecPush == Init /\ [][NextPush]_vars

\* Start-up and poll mode: bootstrap data with an unfinished current gameweek,
\* a finished one or none, fixtures before, inside and past their live window,
\* the clock advancing, one connection registering team t1.
NextStartup ==
  \/ \E o \in {"ok", "fail"}, b \in Bootstraps : InitBootstrap(o, b)
  \/ \E o \in {"ok", "fail"}, f \in FixtureLists : InitFixtures(o, f)
  \/ \E o \in {"ok", "fail"} : InitLive(o, LiveGoal)
  \/ Tick
  \/ \E i \in Procs, o \in {"ok", "fail"}, b \in Bootstraps : CycleBootstrap(i, o, b)
  \/ \E i \in Procs, o \in {"ok", "fail"}, f \in FixtureLists : CycleFixtures(i, o, f)
  \/ \E i \in Procs, o \in {"ok", "fail"} : CycleLive(i, o, LiveGoal)
  \/ \E i \in Procs, o \in FetchOutcomes : TaskFetch(i, o)
  \/ Register("w1", "t1")
  \/ Clock

SpecStartup == Init /\ [][NextStartup]_vars

\* Registration messages with and without a team identifier, from one
\* connection that may close; the upstream has no entry for the identifier
\* undefined, so requests about it fail.
NextRegister ==
  \/ \E o \in {"ok", "fail"} : InitBootstrap(o, UpstreamBootstrap)
  \/ \E o \in {"ok", "fail"} : InitFixtures(o, UpstreamFixtures)
  \/ \E o \in {"ok", "fail"} : InitLive(o, LiveGoal)
  \/ Tick
  \/ \E i \in Procs, o \in {"ok", "fail"} : CycleBootstrap(i, o, UpstreamBootstrap)
  \/ \E i \in Procs, o \in {"ok", "fail"} : CycleFixtures(i, o, UpstreamFixtures)
  \/ \E i \in Procs, o \in {"ok", "fail"} : CycleLive(i, o, LiveGoal)
  \/ \E i \in Procs :
       \E o \in IF procs[i].team = MissingTeamId THEN FetchOutcomes \ {"ok"}
                ELSE FetchOutcomes : TaskFetch(i, o)
  \/ \E t \in {"t1", MissingTeamId} : Register("w1", t)
  \/ Close("w1")

SpecRegister == Init /\ [][NextRegister]_vars

\* Connections that register more than one team identifier: each of two
\* connections may register either team, and either may close.
NextConnections ==
  \/ InitBootstrap("ok", UpstreamBootstrap)
  \/ InitFixtures("ok", UpstreamFixtures)
  \/ InitLive("ok", LiveQuiet)
  \/ \E i \in Procs : CycleBootstrap(i, "ok", UpstreamBootstrap)
  \/ \E i \in Procs : CycleFixtures(i, "ok", UpstreamFixtures)
  \/ \E i \in Procs : CycleLive(i, "ok", LiveQuiet)
  \/ \E i \in Procs, o \in {"ok", "picksFail"} : TaskFetch(i, o)
  \/ \E w \in Conns, t \in TeamIds : Register(w, t)
  \/ \E w \in Conns : Close(w)

SpecConnections == Init /\ [][NextConnections]_vars

\* The registration handshake against an upstream whose bootstrap, fixtures
\* and live requests succeed: one connection that registers team t1 and may
\* close, a push subscription for t1, the team requests and the push delivery
\* failing or not.
NextHandshake ==
  \/ InitBootstrap("ok", UpstreamBootstrap)
  \/ InitFixtures("ok", UpstreamFixtures)
  \/ InitLive("ok", LiveGoal)
  \/ Tick
  \/ \E i \in Procs : CycleBootstrap(i, "ok", UpstreamBootstrap)
  \/ \E i \in Procs : CycleFixtures(i, "ok", UpstreamFixtures)
  \/ \E i \in Procs : CycleLive(i, "ok", LiveGoal)
  \/ \E i \in Procs, o \in {"ok", "managerFail"} : TaskFetch(i, o)
  \/ Register("w1", "t1")
  \/ Close("w1")
  \/ \E i \in Procs, o \in {"ok", "gone"} : Deliver(i, "e1", o)
  \/ AddSubscription("t1", Sub("e1", "k1"))

\* every awaited request settles: a handler suspended on the team requests or
\* on a push delivery is resumed
HandshakeFairness ==
  \A i \in Procs :
    /\ WF_vars(\E o \in {"ok", "managerFail"} : TaskFetch(i, o))
    /\ WF_vars(\E o \in {"ok", "gone"} : Deliver(i, "e1", o))

SpecHandshake == Init /\ [][NextHandshake]_vars /\ HandshakeFairness

\* The process from its start, with any of the VAPID keys set: construction,
\* then the server as in the handshake, with subscriptions added and removed.
NextBoot ==
  \/ Construct
  \/ InitBootstrap("ok", UpstreamBootstrap)
  \/ InitFixtures("ok", UpstreamFixtures)
  \/ InitLive("ok", LiveGoal)
  \/ Tick
  \/ \E i \in Procs : CycleBootstrap(i, "ok", UpstreamBootstrap)
  \/ \E i \in Procs : CycleFixtures(i, "ok", UpstreamFixtures)
  \/ \E i \in Procs : CycleLive(i, "ok", LiveGoal)
  \/ \E i \in Procs, o \in {"ok", "managerFail"} : TaskFetch(i, o)
  \/ Register("w1", "t1")
  \/ Close("w1")
  \/ \E i \in Procs, o \in {"ok", "gone"} : Deliver(i, "e1", o)
  \/ AddSubscription("t1", Sub("e1", "k1"))
  \/ RemoveSubscription("t1", "e1")
  \/ Clock

SpecBoot == InitProcess /\ [][NextBoot]_vars

\* Event scoring: the bootstrap data gives player p1 any position, the live
\* snapshot gives p1 any of the scoring stats, and a connection registers team
\* t1, whose only pick is p1, so that the refresh scores p1.
NextScoring ==
  \/ \E b \in ScoringBootstraps : InitBootstrap("ok", b)
  \/ InitFixtures("ok", UpstreamFixtures)
  \/ \E snap \in ScoringSnapshots : InitLive("ok", snap)
  \/ Register("w1", "t1")
  \/ \E i \in Procs : TaskFetch(i, "ok")

SpecScoring == Init /\ [][NextScoring]_vars

\* Refreshes of two teams that share player p1, by register handlers and by
\* poll cycles, while the live snapshot changes from poll to poll and team t2
\* has a push subscription, so that a refresh of t2 waits on a delivery.
NextRefresh ==
  \/ InitBootstrap("ok", UpstreamBootstrap)
  \/ InitFixtures("ok", UpstreamFixtures)
  \/ \E snap \in RefreshSnapshots : InitLive("ok", snap)
  \/ Tick
  \/ \E i \in Procs : CycleBootstrap(i, "ok", UpstreamBootstrap)
  \/ \E i \in Procs : CycleFixtures(i, "ok", UpstreamFixtures)
  \/ \E i \in Procs, snap \in RefreshSnapshots : CycleLive(i, "ok", snap)
  \/ \E i \in Procs : TaskFetch(i, "ok")
  \/ \E r \in {<<"w1", "t1">>, <<"w2", "t2">>} : Register(r[1], r[2])
  \/ \E i \in Procs : Deliver(i, "e1", "ok")
  \/ AddSubscription("t2", Sub("e1", "k1"))

SpecRefresh == Init /\ [][NextRefresh]_vars

\* Live scores: the first live snapshot is one with an entry per player or one
\* with an entry missing, and each of two connections registers its team.
NextLiveScore ==
  \/ InitBootstrap("ok", UpstreamBootstrap)
  \/ InitFixtures("ok", UpstreamFixtures)
  \/ \E snap \in {LiveGoal, LiveBoth, LiveGapped} : InitLive("ok", snap)
  \/ \E i \in Procs : TaskFetch(i, "ok")
  \/ \E r \in {<<"w1", "t1">>, <<"w2", "t2">>} : Register(r[1], r[2])

SpecLiveScore == Init /\ [][NextLiveScore]_vars

\* The reference data changes between polls: the gameweek resolved at
\* initialisation finishes, or another gameweek becomes the current one, while
\* a connection registers and receives its messages.
NextGameweek ==
  \/ \E b \in {UpstreamBootstrap, BootstrapEarlier} : InitBootstrap("ok", b)
  \/ InitFixtures("ok", UpstreamFixtures)
  \/ InitLive("ok", LiveGoal)
  \/ Tick
  \/ \E i \in Procs, b \in {UpstreamBootstrap, BootstrapEarlier, BootstrapFinished} :
       CycleBootstrap(i, "ok", b)
  \/ \E i \in Procs : CycleFixtures(i, "ok", UpstreamFixtures)
  \/ \E i \in Procs : CycleLive(i, "ok", LiveGoal)
  \/ \E i \in Procs : TaskFetch(i, "ok")
  \/ Register("w1", "t1")

SpecGameweek == Init /\ [][NextGameweek]_vars

\* The browser's FplService initialising against every list of up to MaxEvents
\* gameweeks, each flagged current or not and finished or not.
NextFpl ==
  \/ \E flags \in EventLists : FplBootstrap(EventsOf(flags))
  \/ \E o \in {"ok", "fail"} : FplFetch(o)

SpecFpl == Init /\ [][NextFpl]_vars

\* The browser's FplService receiving live updates: the application starts and
\* stops them at any time, sockets connect, receive messages and close.
NextLive ==
  \/ \E f \in BOOLEAN : FplBootstrap(<<Event(1, TRUE, f)>>)
  \/ FplFetch("ok")
  \/ StartLiveUpdates
  \/ StopLiveUpdates
  \/ \E k \in 1..MaxSockets : SocketOpen(k)
  \/ \E k \in 1..MaxSockets, type \in {"initial", "update"} : SocketMessage(k, type)
  \/ \E k \in 1..MaxSockets : SocketClose(k)
  \/ ReconnectTimer

SpecLive == Init /\ [][NextLive]_vars

\* ------------------------------------------------------------------ claims
\* invocation i starts the deliveries of a notification in this step
Dispatches(i) ==
  /\ procs'[i].pc = "deliver"
  /\ procs[i].pc # "deliver" \/ procs'[i].events # procs[i].events

\* poll cycle i runs notifyClients and returns in this step
Broadcasts(i) ==
  /\ procs[i].kind = "cycle"
  /\ procs[i].pc \in {"live", "fetch", "deliver"}
  /\ procs'[i].kind = "idle" \/ procs'[i].pc = "bootstrap"

CyclesInFlight == {i \in Procs : procs[i].kind = "cycle"}

\* the endpoints subscribed for a team
Subscribed(subs, teamId) ==
  IF teamId \in DOMAIN subs THEN {subs[teamId][j].endpoint : j \in 1..Len(subs[teamId])}
  ELSE {}

\* C1: a refresh of a team dispatches no push notification for a player whose
\* stats are those the team's previous stored refresh saw for that player and
\* for which, with those stats, a notification has been dispatched already.
C1_NoRepeatedNotification ==
  [][\A i \in Procs :
       Dispatches(i) =>
         LET t == procs'[i].team
             el == procs'[i].curEl
         IN ~(/\ el \in DOMAIN prevStats[t]
              /\ prevStats[t][el] = procs'[i].seen[el]
              /\ <<t, el, procs'[i].seen[el]>> \in notified)]_vars

\* C2: at most one execution of updateState is in flight.
C2_AtMostOneCycle == Cardinality(CyclesInFlight) <= 1

\* C3: a poll cycle that has entered its loop over the teams returns only after
\* it has called updateTeamState for every registered team, whatever the outcome
\* of each team's upstream calls, and it then broadcasts to every registered
\* open connection whose team has state.
C3_TeamFailureIsolated ==
  [][\A i \in Procs :
       (procs[i].kind = "cycle" /\ procs[i].pc = "fetch"
          /\ (procs'[i].kind = "idle" \/ procs'[i].pc = "bootstrap"))
       => /\ {clients[j].teamId : j \in 1..Len(clients)} \subseteq procs[i].visited
          /\ broadcast' = {<<clients[j].ws, clients[j].teamId>> :
                             j \in {l \in 1..Len(clients) :
                                      /\ clients[l].teamId \in DOMAIN teams'
                                      /\ clients[l].ws \notin closed}}]_vars

\* C3 witness: a cycle is refreshing t2 after its refresh of t1 failed (t1 was
\* visited in this cycle and has no state).
C3_Witness ==
  \E i \in Procs :
    /\ procs[i].kind = "cycle" /\ procs[i].pc = "fetch" /\ procs[i].team = "t2"
    /\ "t1" \in procs[i].visited
    /\ "t1" \notin DOMAIN teams
    /\ Len(clients) = 2

\* C4: every open connection that registered a team receives the "update" of
\* each poll cycle in which the team has state.
C4_AllRegisteredReceiveUpdate ==
  [][\A i \in Procs :
       Broadcasts(i) =>
         \A r \in registered : r[2] \in DOMAIN teams' => r \in broadcast']_vars

\* C5: a poll cycle refreshes every team that has a push subscription.
C5_SubscribedTeamsRefreshed ==
  [][\A i \in Procs :
       Broadcasts(i) => DOMAIN subscriptions \subseteq procs[i].visited]_vars

\* C6: a delivery to endpoint E of team T failing with 410 removes E from T's
\* subscriptions and no other endpoint of any team, and deliveries are only
\* ever started to endpoints subscribed at that moment.
C6_GoneEndpointRemoved ==
  [][/\ (lastCall'.op = "deliver" /\ lastCall'.outcome = "gone") =>
          /\ Subscribed(subscriptions', lastCall'.team)
               = Subscribed(subscriptions, lastCall'.team) \ {lastCall'.endpoint}
          /\ \A u \in TeamIds \ {lastCall'.team} :
               Subscribed(subscriptions', u) = Subscribed(subscriptions, u)
     /\ \A i \in Procs :
          Dispatches(i) =>
            procs'[i].pending \subseteq Subscribed(subscriptions', procs'[i].team)]_vars

\* C6 witness: the delivery to e1 of t1 has just failed with 410 while the same
\* notification is still awaited for e2, which stays subscribed.
C6_Witness ==
  /\ lastCall = Call("deliver", "t1", "e1", "gone")
  /\ Subscribed(subscriptions, "t1") = {"e2"}
  /\ \E i \in Procs : procs[i].pc = "deliver" /\ procs[i].pending = {"e2"}

\* C7: a delivery failing otherwise than with 410 leaves the subscription map
\* as it was, and the failed delivery is not attempted again.
C7_OtherFailureKeepsSubscriptions ==
  [][(lastCall'.op = "deliver" /\ lastCall'.outcome = "error") =>
        /\ subscriptions' = subscriptions
        /\ \A i \in Procs :
             (procs[i].pc = "deliver" /\ procs'[i] # procs[i]) =>
               ~(/\ procs'[i].pc = "deliver"
                 /\ procs'[i].events = procs[i].events
                 /\ lastCall'.endpoint \in procs'[i].pending)]_vars

\* C7 witness: the delivery to e1 of t1 has just failed with another error and
\* e1 is still subscribed.
C7_Witness ==
  /\ lastCall = Call("deliver", "t1", "e1", "error")
  /\ Subscribed(subscriptions, "t1") = {"e1", "e2"}

NoDuplicateEndpoints ==
  \A t \in DOMAIN subscriptions :
    \A a, b \in 1..Len(subscriptions[t]) :
      a # b => subscriptions[t][a].endpoint # subscriptions[t][b].endpoint

\* C8: no team's subscription list holds two entries with the same endpoint,
\* and adding an endpoint already subscribed for the team leaves the map unchanged.
C8_AddIdempotent ==
  /\ []NoDuplicateEndpoints
  /\ [][(lastCall'.op = "add"
           /\ lastCall'.endpoint \in Subscribed(subscriptions, lastCall'.team))
        => subscriptions' = subscriptions]_vars

\* C8 witness: e1 has just been added for t1 again: it precedes e2 in the list,
\* so it was subscribed before e2 was.
C8_Witness ==
  /\ lastCall = Call("add", "t1", "e1", "none")
  /\ "t1" \in DOMAIN subscriptions
  /\ subscriptions["t1"] = <<Sub("e1", "k1"), Sub("e2", "k1")>>

NoEmptyList == \A t \in DOMAIN subscriptions : Len(subscriptions[t]) > 0

\* C9: removeSubscription leaves every team's endpoints as they were when the
\* team is unknown or the endpoint not subscribed, removes exactly that endpoint
\* otherwise, and deletes the team's key with its last endpoint; no key of the
\* map holds an empty list.
C9_RemoveExact ==
  /\ []NoEmptyList
  /\ [][lastCall'.op = "remove" =>
          LET t == lastCall'.team
              e == lastCall'.endpoint
          IN /\ \A u \in TeamIds \ {t} :
                  Subscribed(subscriptions', u) = Subscribed(subscriptions, u)
             /\ Subscribed(subscriptions', t) = Subscribed(subscriptions, t) \ {e}
             /\ (t \in DOMAIN subscriptions') = (Subscribed(subscriptions, t) \ {e} # {})]_vars

\* C9 witness: an endpoint of t1 has just been removed and t1 has no entry left,
\* while a notification of t1 started earlier is still being delivered and the
\* entry of t2 is in place.
C9_Witness ==
  /\ lastCall.op = "remove" /\ lastCall.team = "t1"
  /\ DOMAIN subscriptions = {"t2"}
  /\ \E i \in Procs : procs[i].pc = "deliver" /\ procs[i].team = "t1"

\* C10: a notification is attempted to every endpoint subscribed for the team
\* when it is dispatched; each delivery that settles, with whatever outcome,
\* leaves the other deliveries awaited; and when the last one has settled
\* sendNotification returns normally: updateTeamState goes on to the next
\* notification or stores the team state.
C10_DeliveriesIndependent ==
  [][\A i \in Procs :
       /\ Dispatches(i) =>
            procs'[i].pending = Subscribed(subscriptions', procs'[i].team)
       /\ (procs[i].pc = "deliver" /\ procs'[i] # procs[i]) =>
            \/ /\ procs'[i].pc = "deliver"
               /\ procs'[i].events = procs[i].events
               /\ procs'[i].pending = procs[i].pending \ {lastCall'.endpoint}
               /\ procs'[i].pending # {}
            \/ /\ procs[i].pending = {lastCall'.endpoint}
               /\ \/ Dispatches(i)
                  \/ /\ procs[i].team \in DOMAIN teams'
                     /\ teams'[procs[i].team].events = procs[i].events]_vars

\* C10 witness: the delivery to e1 has failed and the delivery of the same
\* notification to e2 is still awaited.
C10_Witness ==
  /\ lastCall.op = "deliver" /\ lastCall.endpoint = "e1"
  /\ lastCall.outcome \in {"gone", "error"}
  /\ \E i \in Procs :
       procs[i].pc = "deliver" /\ procs[i].team = lastCall.team /\ procs[i].pending = {"e2"}

\* C11: at the completion of a poll cycle the team state map holds no entry for
\* a team that has no connection in the registry, no push subscription and no
\* refresh in flight.
C11_UnobservedTeamEvicted ==
  [][\A i \in Procs :
       Broadcasts(i) =>
         \A t \in DOMAIN teams' :
           \/ \E j \in 1..Len(clients') : clients'[j].teamId = t
           \/ t \in DOMAIN subscriptions'
           \/ \E j \in Procs : procs'[j].kind # "idle" /\ procs'[j].team = t]_vars

\* C12: once initialize has resolved the gameweek of a non-empty event list, it
\* is the first gameweek flagged current if there is one, else the finished
\* gameweek latest in the list if there is one, else the first unfinished
\* gameweek; the resolution fails exactly for the empty list.
C12_GameweekResolution ==
  fplService.pc # "bootstrap" =>
    LET events == fplService.events
        J == 1..Len(events)
        current == {j \in J : events[j].is_current}
        finished == {j \in J : events[j].finished}
        upcoming == {j \in J : ~events[j].finished}
        Least(S) == CHOOSE j \in S : \A l \in S : j <= l
        Greatest(S) == CHOOSE j \in S : \A l \in S : j >= l
        pick == IF current # {} THEN Least(current)
                ELSE IF finished # {} THEN Greatest(finished)
                ELSE Least(upcoming)
    IN IF events = <<>>
       THEN fplService.pc = "failed" /\ fplService.currentGameweek = 0
       ELSE /\ fplService.currentGameweek = events[pick].id
            /\ fplService.gameweekInfo = events[pick]

\* C12 witness: no gameweek is current, gameweeks 1 and 2 are finished, and
\* gameweek 2 was resolved.
C12_Witness ==
  /\ fplService.events = <<Event(1, FALSE, TRUE), Event(2, FALSE, TRUE)>>
  /\ fplService.currentGameweek = 2
  /\ fplService.pc = "picks"

\* C13: when the bootstrap data received by initializeState has gameweeks and
\* none of them is flagged current, state.gameweek.current becomes the finished
\* gameweek latest in the list (else the first unfinished one) and
\* initialisation goes on to the fixtures.
C13_InitResolvesGameweek ==
  [][(/\ initPc = "bootstrap"
      /\ bootstrap'.loaded
      /\ bootstrap'.events # <<>>
      /\ \A j \in 1..Len(bootstrap'.events) : ~bootstrap'.events[j].is_current)
     => /\ initPc' = "fixtures"
        /\ gameweek'.current = FindRelevantGameweek(bootstrap'.events).gameweek]_vars

\* C14: isLiveGameweek is true exactly when the cached bootstrap data has a
\* current gameweek that is not finished and some fixture of that gameweek has
\* kickoff_time <= now <= kickoff_time + 2h.
C14_LiveIffFixtureInWindow ==
  IsLiveGameweek <=>
    /\ bootstrap.loaded
    /\ \E g \in 1..Len(bootstrap.events), j \in 1..Len(fixtures) :
         /\ bootstrap.events[g].is_current
         /\ ~bootstrap.events[g].finished
         /\ fixtures[j].event = bootstrap.events[g].id
         /\ fixtures[j].kickoff_time <= now
         /\ now <= fixtures[j].kickoff_time + 2

\* C14 witness: the match of the unfinished current gameweek kicked off an hour
\* ago and the poll timer runs in live mode.
C14_Witness ==
  /\ fixtures = FixturesUnderway /\ now = 0
  /\ bootstrap = UpstreamBootstrap
  /\ IsLiveGameweek
  /\ updateInterval = "live"

\* a tick callback of invocation i returns in this step
TickCallbackReturns(i) ==
  /\ procs[i].kind = "cycle" /\ procs[i].src = "tick"
  /\ procs'[i].kind = "idle" \/ procs'[i].src = "immediate"

\* C15: when a tick callback returns, the poll timer is the one of the mode
\* computed at that moment.
C15_TimerFollowsMode ==
  [][\A i \in Procs : TickCallbackReturns(i) => updateInterval' = PollMode']_vars

\* C16: a register message is taken up (the handler starts the refresh of the
\* team) only in a state where the bootstrap data, the fixtures and the live
\* snapshot have been loaded.
C16_RegistrationAfterFirstRefresh ==
  [][\A i \in Procs :
       (procs'[i].kind = "register" /\ procs[i].kind # "register") =>
         /\ bootstrap.loaded
         /\ fixtures # <<>>
         /\ gameweek.liveData.loaded]_vars

\* C17: polling is started whether or not the initial refresh succeeded: once
\* initializeState has ended in its catch block the poll timer is set.
C17_PollingStartedAfterFailedInit ==
  initPc = "failed" => updateInterval # "none"

\* C18: a step in which the upstream call for the bootstrap data, the fixtures,
\* the live snapshot or a team's picks, manager or history fails leaves
\* state.bootstrap, state.fixtures, gameweek.liveData, respectively the team
\* state map, as it was; and loaded bootstrap or live data never become unloaded.
C18_FailedFetchKeepsCache ==
  [][/\ lastCall'.outcome \notin {"ok", "none"} =>
          /\ lastCall'.op = "bootstrap" => bootstrap' = bootstrap
          /\ lastCall'.op = "fixtures" => fixtures' = fixtures
          /\ lastCall'.op = "live" => gameweek' = gameweek
          /\ lastCall'.op = "team" => teams' = teams
     /\ bootstrap.loaded => bootstrap'.loaded
     /\ gameweek.liveData.loaded => gameweek'.liveData.loaded]_vars

\* C18 witness: the manager request of a refresh of team t2 has just failed and
\* the state stored for t2 by an earlier refresh is still there, with the
\* bootstrap data and the live snapshot loaded.
C18_Witness ==
  /\ lastCall.op = "team" /\ lastCall.team = "t2" /\ lastCall.outcome = "managerFail"
  /\ "t2" \in DOMAIN teams
  /\ teams["t2"].picks = UpstreamPicks("t2")
  /\ bootstrap.loaded /\ gameweek.liveData.loaded

\* C19: when the bootstrap request or the fixtures request of a timer tick's
\* poll cycle fails, the cycle goes on to its next step.
C19_CycleContinuesAfterFailedFetch ==
  [][\A i \in Procs :
       (/\ procs[i].kind = "cycle" /\ procs[i].src = "tick"
        /\ procs[i].pc \in {"bootstrap", "fixtures"}
        /\ procs'[i] # procs[i]
        /\ lastCall'.op = procs[i].pc
        /\ lastCall'.outcome = "fail")
       => /\ procs'[i].kind = "cycle"
          /\ procs'[i].src = procs[i].src
          /\ procs'[i].pc = IF procs[i].pc = "bootstrap" THEN "fixtures" ELSE "live"]_vars

\* C20: a register message without teamId leaves the connection registry and
\* the team state map as they were, starts no upstream fetch, sends nothing and
\* does not close the connection.
C20_MalformedRegistrationIgnored ==
  [][\A w \in Conns :
       (<<w, MissingTeamId>> \in registered' /\ <<w, MissingTeamId>> \notin registered) =>
         /\ clients' = clients
         /\ teams' = teams
         /\ procs' = procs
         /\ broadcast' = broadcast
         /\ closed' = closed]_vars

\* C21: once the close of a connection has been handled no entry of the
\* connection registry references that connection, whatever register messages
\* it sent, and the close removes no entry of another connection.
C21_CloseRemovesOnlyOwnEntries ==
  [][\A w \in Conns :
       (w \in closed' /\ w \notin closed) =>
         /\ \A j \in 1..Len(clients') : clients'[j].ws # w
         /\ \A j \in 1..Len(clients) :
              clients[j].ws # w => \E l \in 1..Len(clients') : clients'[l] = clients[j]]_vars

\* the register handler in slot i returns in this step
RegisterReturns(i) == procs[i].kind = "register" /\ procs'[i].kind # "register"

\* the refresh that ends in this step stored the team state: its last await
\* was a push delivery, or the team requests that all answered
RefreshStored ==
  \/ lastCall'.op = "deliver"
  \/ lastCall'.op = "team" /\ lastCall'.outcome = "ok"

\* C22: a register handler whose refresh succeeded sends its open connection
\* one "initial" message with the team's non-empty picks when it returns, and
\* every suspended register handler eventually returns; an "initial" message
\* is only ever sent by a returning register handler, to its own connection
\* and for its own team, and a step of a poll cycle sends none.
C22_InitialReplyOnce ==
  /\ [][/\ \A i \in Procs :
             (RegisterReturns(i) /\ RefreshStored /\ procs[i].ws \notin closed) =>
               /\ initial'.ws = procs[i].ws
               /\ initial'.teamId = procs[i].team
               /\ initial'.picks # <<>>
        /\ initial' # NoMessage =>
             \E i \in Procs : /\ RegisterReturns(i)
                              /\ initial'.ws = procs[i].ws
                              /\ initial'.teamId = procs[i].team
        /\ \A i \in Procs :
             (procs[i].kind = "cycle" /\ procs'[i] # procs[i]) => initial' = NoMessage]_vars
  /\ \A i \in Procs : (procs[i].kind = "register") ~> (procs[i].kind # "register")

\* C22 witness: connection w1 has just received the "initial" message for t1
\* with its pick, at the return of a register handler whose last await was a
\* push delivery, after an earlier "update" broadcast to w1.
C22_Witness ==
  /\ initial = [ws |-> "w1", teamId |-> "t1", picks |-> UpstreamPicks("t1")]
  /\ lastCall.op = "deliver"
  /\ <<"w1", "t1">> \in broadcast
  /\ "w1" \notin closed

\* C23: when VAPID_PUBLIC_KEY or VAPID_PRIVATE_KEY is not set, construction
\* throws: once it has run the process is gone, and at no time is a
\* connection registered or closed by a handler, a poll timer armed, an
\* upstream request or refresh in flight, any upstream data loaded, a
\* subscription stored or removed, or a notification dispatched.
C23_MissingKeysFatal ==
  ~(VapidKeys \subseteq env) =>
    /\ initPc \in {"construct", "crashed"}
    /\ clients = <<>> /\ registered = {} /\ closed = {}
    /\ updateInterval = "none"
    /\ \A i \in Procs : procs[i] = IdleProc
    /\ bootstrap = NullBootstrap /\ fixtures = <<>> /\ teams = EmptyMap
    /\ subscriptions = EmptyMap /\ notified = {} /\ broadcast = {}
    /\ initial = NoMessage /\ lastCall = NoCall

\* C23 witness: only the public key is set and construction has thrown.
C23_Witness ==
  /\ env = {"VAPID_PUBLIC_KEY"}
  /\ initPc = "crashed"

\* the last stored refresh of team t1 scored its pick, player p1
Scored == "t1" \in DOMAIN teams /\ 1 \in DOMAIN prevStats["t1"]

\* the stats the refresh read for p1, p1's position, and the events it stored
ScoredStats == prevStats["t1"][1]
ScoredType == bootstrap.elements[1].element_type
ScoredEvents == teams["t1"].events

\* the positions in the stored event list of the events of one type
Emitted(type) == {j \in 1..Len(ScoredEvents) : ScoredEvents[j].type = type}

\* C24: a goalsConceded event is stored exactly when the player is a keeper or
\* a defender and goals_conceded >= 2; its points are -floor(goals_conceded / 2),
\* which is at most 0.
C24_GoalsConceded ==
  Scored =>
    /\ Emitted("goalsConceded") # {} <=>
         (ScoredType \in {1, 2} /\ ScoredStats.goals_conceded >= 2)
    /\ \A j \in Emitted("goalsConceded") :
         /\ ScoredEvents[j].points = 0 - (ScoredStats.goals_conceded \div 2)
         /\ ScoredEvents[j].points <= 0

\* C24 witness: a defender who conceded 5 goals has a goalsConceded event of -2.
C24_Witness ==
  /\ Scored /\ ScoredType = 2 /\ ScoredStats.goals_conceded = 5
  /\ \E j \in Emitted("goalsConceded") : ScoredEvents[j].points = -2

\* C25: a cleanSheet event is stored exactly when clean_sheets > 0 and the
\* player is a keeper, a defender or a midfielder; its points are 4, 4 and 1
\* for these positions, whatever the clean_sheets count.
C25_CleanSheet ==
  Scored =>
    /\ Emitted("cleanSheet") # {} <=>
         (ScoredStats.clean_sheets > 0 /\ ScoredType \in {1, 2, 3})
    /\ \A j \in Emitted("cleanSheet") :
         ScoredEvents[j].points = IF ScoredType \in {1, 2} THEN 4 ELSE 1

\* C25 witness: a midfielder with a clean_sheets count of 3 has a cleanSheet
\* event of 1 point.
C25_Witness ==
  /\ Scored /\ ScoredType = 3 /\ ScoredStats.clean_sheets = 3
  /\ \E j \in Emitted("cleanSheet") : ScoredEvents[j].points = 1

\* C26: one minutesPlayed event of 2 points is stored when minutes > 59, one
\* of 1 point when 0 < minutes <= 59, and none when minutes = 0.
C26_MinutesPlayed ==
  Scored =>
    /\ Cardinality(Emitted("minutesPlayed")) = IF ScoredStats.minutes > 0 THEN 1 ELSE 0
    /\ \A j \in Emitted("minutesPlayed") :
         ScoredEvents[j].points = IF ScoredStats.minutes > 59 THEN 2 ELSE 1

\* C26 witness: 59 minutes give one minutesPlayed event of 1 point.
C26_Witness ==
  /\ Scored /\ ScoredStats.minutes = 59
  /\ \E j \in Emitted("minutesPlayed") : ScoredEvents[j].points = 1

\* C27: a goal event is stored exactly when goals_scored > 0; its points are
\* goals_scored times 10 for a keeper, 6 for a defender, 5 for a midfielder and
\* 4 for a forward and for an absent or unknown position.
C27_Goal ==
  Scored =>
    /\ Emitted("goal") # {} <=> ScoredStats.goals_scored > 0
    /\ \A j \in Emitted("goal") :
         ScoredEvents[j].points =
           ScoredStats.goals_scored * (CASE ScoredType = 1 -> 10
                                         [] ScoredType = 2 -> 6
                                         [] ScoredType = 3 -> 5
                                         [] OTHER -> 4)

\* C27 witness: two goals of a player without a position give a goal event of
\* 8 points.
C27_Witness ==
  /\ Scored /\ ScoredType = 0 /\ ScoredStats.goals_scored = 2
  /\ \E j \in Emitted("goal") : ScoredEvents[j].points = 8

\* C28: a save event is stored exactly when the player is a keeper and
\* saves >= 3; its points are floor(saves / 3).
C28_Save ==
  Scored =>
    /\ Emitted("save") # {} <=> (ScoredType = 1 /\ ScoredStats.saves >= 3)
    /\ \A j \in Emitted("save") : ScoredEvents[j].points = ScoredStats.saves \div 3

\* C28 witness: a keeper with 5 saves has a save event of 1 point.
C28_Witness ==
  /\ Scored /\ ScoredType = 1 /\ ScoredStats.saves = 5
  /\ \E j \in Emitted("save") : ScoredEvents[j].points = 1

\* the counter-proportional rules: event type, counter and factor
ProportionalRules ==
  {<<"assist", "assists", 3>>, <<"penaltySave", "penalties_saved", 5>>,
   <<"penaltyMiss", "penalties_missed", -2>>, <<"ownGoal", "own_goals", -2>>,
   <<"yellowCard", "yellow_cards", -1>>, <<"redCard", "red_cards", -3>>,
   <<"bonus", "bonus", 1>>}

\* C29: for every position, each of assist, penaltySave, penaltyMiss, ownGoal,
\* yellowCard, redCard and bonus is stored exactly when its counter is > 0,
\* with points counter times 3, 5, -2, -2, -1, -3 and 1.
C29_ProportionalRules ==
  Scored =>
    \A r \in ProportionalRules :
      /\ Emitted(r[1]) # {} <=> ScoredStats[r[2]] > 0
      /\ \A j \in Emitted(r[1]) : ScoredEvents[j].points = ScoredStats[r[2]] * r[3]

\* C29 witness: two red cards of a player of unknown position give a redCard
\* event of -6 points.
C29_Witness ==
  /\ Scored /\ ScoredType = 5 /\ ScoredStats.red_cards = 2
  /\ \E j \in Emitted("redCard") : ScoredEvents[j].points = -6

\* the event types of processPlayerEvents
EventTypes ==
  {"minutesPlayed", "goal", "assist", "cleanSheet", "goalsConceded", "save",
   "penaltySave", "penaltyMiss", "ownGoal", "yellowCard", "redCard", "bonus"}

\* whether the condition of the rule of one event type holds for the scored
\* stats and position
RuleHolds(type) ==
  CASE type = "minutesPlayed" -> ScoredStats.minutes > 0
    [] type = "goal" -> ScoredStats.goals_scored > 0
    [] type = "assist" -> ScoredStats.assists > 0
    [] type = "cleanSheet" -> ScoredStats.clean_sheets > 0 /\ ScoredType \in {1, 2, 3}
    [] type = "goalsConceded" -> ScoredStats.goals_conceded >= 2 /\ ScoredType \in {1, 2}
    [] type = "save" -> ScoredStats.saves >= 3 /\ ScoredType = 1
    [] type = "penaltySave" -> ScoredStats.penalties_saved > 0
    [] type = "penaltyMiss" -> ScoredStats.penalties_missed > 0
    [] type = "ownGoal" -> ScoredStats.own_goals > 0
    [] type = "yellowCard" -> ScoredStats.yellow_cards > 0
    [] type = "redCard" -> ScoredStats.red_cards > 0
    [] type = "bonus" -> ScoredStats.bonus > 0

RECURSIVE SumPoints(_)
\* the sum of the points of a list of events
SumPoints(evs) == IF evs = <<>> THEN 0 ELSE Head(evs).points + SumPoints(Tail(evs))

\* the (type, points) pairs of the stored events, in order
ScoredPairs == [j \in 1..Len(ScoredEvents) |-> <<ScoredEvents[j].type, ScoredEvents[j].points>>]

\* a midfielder's stats with one goal, one assist, 2 bonus and 90 minutes
ExampleStats ==
  [ZeroStats EXCEPT !.goals_scored = 1, !.assists = 1, !.bonus = 2, !.minutes = 90]

\* C30: the stored list has exactly one event for each rule whose condition
\* holds and no other event; a midfielder with one goal, one assist, 2 bonus
\* and 90 minutes gets minutesPlayed 2, goal 5, assist 3 and bonus 2, 12 points
\* in all.
C30_RulesIndependent ==
  Scored =>
    /\ \A type \in EventTypes :
         Cardinality(Emitted(type)) = IF RuleHolds(type) THEN 1 ELSE 0
    /\ \A j \in 1..Len(ScoredEvents) : ScoredEvents[j].type \in EventTypes
    /\ (ScoredType = 3 /\ ScoredStats = ExampleStats) =>
         /\ ScoredPairs = <<<<"minutesPlayed", 2>>, <<"goal", 5>>, <<"assist", 3>>,
                            <<"bonus", 2>>>>
         /\ SumPoints(ScoredEvents) = 12

\* C30 witness: the midfielder of the example has been scored, with four
\* events.
C30_Witness ==
  /\ Scored /\ ScoredType = 3 /\ ScoredStats = ExampleStats
  /\ Len(ScoredEvents) = 4

\* the (type, points) pairs of the events stored for team t that are player
\* el's
StoredPairs(t, el) ==
  {<<teams[t].events[j].type, teams[t].events[j].points>> :
     j \in {l \in 1..Len(teams[t].events) :
              teams[t].events[l].player = bootstrap.elements[el].web_name}}

LivePointsById(id) ==
  IF gameweek.liveData.loaded
     /\ \E j \in 1..Len(gameweek.liveData.elements) : gameweek.liveData.elements[j].id = id
  THEN LET j == CHOOSE l \in 1..Len(gameweek.liveData.elements) :
                  gameweek.liveData.elements[l].id = id
       IN gameweek.liveData.elements[j].stats.total_points
  ELSE 0

RECURSIVE ExpectedLiveScore(_)
\* the sum over the picks of the live points of the pick's element times the
\* pick's multiplier
ExpectedLiveScore(picks) ==
  IF picks = <<>> THEN 0
  ELSE LivePointsById(Head(picks).element) * Head(picks).multiplier
       + ExpectedLiveScore(Tail(picks))

\* C32: the live score a successful refresh stores for a team is the sum over
\* its picks of total_points of the live element whose id is pick.element times
\* the pick's multiplier, a pick without live data counting 0.
C32_LiveScoreIsSumOverPicks ==
  [][\A t \in TeamIds :
       (lastCall'.op = "team" /\ lastCall'.team = t /\ lastCall'.outcome = "ok"
        /\ t \in DOMAIN teams') =>
         teams'[t].liveScore = ExpectedLiveScore(teams'[t].picks)]_vars

\* the (type, points) pairs the rule table gives for stats st and position et
RulePairs(st, et) ==
       {<<"minutesPlayed", IF st.minutes > 59 THEN 2 ELSE 1>> :
          x \in 1..(IF st.minutes > 0 THEN 1 ELSE 0)}
  \cup {<<"goal", st.goals_scored * (CASE et = 1 -> 10 [] et = 2 -> 6 [] et = 3 -> 5 [] OTHER -> 4)>> :
          x \in 1..(IF st.goals_scored > 0 THEN 1 ELSE 0)}
  \cup {<<"assist", st.assists * 3>> : x \in 1..(IF st.assists > 0 THEN 1 ELSE 0)}
  \cup {<<"cleanSheet", IF et = 3 THEN 1 ELSE 4>> :
          x \in 1..(IF st.clean_sheets > 0 /\ et \in {1, 2, 3} THEN 1 ELSE 0)}
  \cup {<<"goalsConceded", 0 - (st.goals_conceded \div 2)>> :
          x \in 1..(IF st.goals_conceded >= 2 /\ et \in {1, 2} THEN 1 ELSE 0)}
  \cup {<<"save", st.saves \div 3>> : x \in 1..(IF st.saves >= 3 /\ et = 1 THEN 1 ELSE 0)}
  \cup {<<"penaltySave", st.penalties_saved * 5>> : x \in 1..(IF st.penalties_saved > 0 THEN 1 ELSE 0)}
  \cup {<<"penaltyMiss", st.penalties_missed * (-2)>> : x \in 1..(IF st.penalties_missed > 0 THEN 1 ELSE 0)}
  \cup {<<"ownGoal", st.own_goals * (-2)>> : x \in 1..(IF st.own_goals > 0 THEN 1 ELSE 0)}
  \cup {<<"yellowCard", st.yellow_cards * (-1)>> : x \in 1..(IF st.yellow_cards > 0 THEN 1 ELSE 0)}
  \cup {<<"redCard", st.red_cards * (-3)>> : x \in 1..(IF st.red_cards > 0 THEN 1 ELSE 0)}
  \cup {<<"bonus", st.bonus>> : x \in 1..(IF st.bonus > 0 THEN 1 ELSE 0)}

\* C33: the events stored for a team are those of its latest stored refresh
\* alone: for each pick the refresh read, exactly the rule table's events for
\* the stats it read, each once, and no event of any other player; nothing is
\* carried over from an earlier refresh.
C33_EventsOfLatestRefreshOnly ==
  \A t \in DOMAIN teams :
    /\ \A el \in DOMAIN prevStats[t] :
         StoredPairs(t, el) = RulePairs(prevStats[t][el], bootstrap.elements[el].element_type)
    /\ \A j \in 1..Len(teams[t].events) :
         \E el \in DOMAIN prevStats[t] :
           teams[t].events[j].player = bootstrap.elements[el].web_name
    /\ \A j \in 1..Len(teams[t].events), l \in 1..Len(teams[t].events) :
         teams[t].events[j] = teams[t].events[l] => j = l

\* C33 witness: a refresh of t2 dispatched a notification for p1's goal and
\* has ended, and the latest stored refresh of t2 read a snapshot without the
\* goal and the saves: the stored event list is empty.
C33_Witness ==
  /\ "t2" \in DOMAIN teams
  /\ \A i \in Procs : procs[i] = IdleProc
  /\ \E st \in {LiveGoal.elements[1].stats} : <<"t2", 1, st>> \in notified
  /\ DOMAIN prevStats["t2"] = {1, 2}
  /\ prevStats["t2"][1] = ZeroStats /\ prevStats["t2"][2] = ZeroStats
  /\ teams["t2"].events = <<>>

\* C34: when a poll cycle dispatches the push notification of an event, the
\* stored state of the team already contains that event and has been
\* broadcast to the team's open connections.
C34_StoreBroadcastThenPush ==
  [][\A i \in Procs :
       (procs[i].kind = "cycle" /\ Dispatches(i)) =>
         /\ procs'[i].team \in DOMAIN teams'
         /\ procs'[i].events[Len(procs'[i].events)] \in Range(teams'[procs'[i].team].events)
         /\ \A j \in 1..Len(clients') :
              (clients'[j].teamId = procs'[i].team /\ clients'[j].ws \notin closed') =>
                <<clients'[j].ws, clients'[j].teamId>> \in broadcast']_vars

\* C35: a step that creates or changes the stored state of a team happens
\* while the team has an entry in the connection registry or a push
\* subscription.
C35_NoWriteWithoutObserver ==
  [][\A t \in DOMAIN teams' :
       (t \notin DOMAIN teams \/ teams'[t] # teams[t]) =>
         \/ \E j \in 1..Len(clients') : clients'[j].teamId = t
         \/ t \in DOMAIN subscriptions']_vars

\* the stats a refresh read for its picks are all those of one live snapshot
FromSnapshot(seen, snap) ==
  \A el \in DOMAIN seen :
    el \in 1..Len(snap.elements) /\ seen[el] = snap.elements[el].stats

\* C36: every state stored for a team is computed from one live snapshot, and
\* a stored state computed from the engine's latest snapshot is not replaced
\* by one that is not.
C36_WritesSerialized ==
  [][\A t \in DOMAIN teams' :
       (t \notin DOMAIN teams \/ teams'[t] # teams[t] \/ prevStats'[t] # prevStats[t]) =>
         /\ \E snap \in RefreshSnapshots : FromSnapshot(prevStats'[t], snap)
         /\ (t \in DOMAIN teams /\ prevStats[t] # EmptyMap
             /\ FromSnapshot(prevStats[t], gameweek'.liveData)) =>
              FromSnapshot(prevStats'[t], gameweek'.liveData)]_vars

\* C37: no "update" message for a team reaches a connection while a register
\* handler of that connection for that team is still suspended in its refresh,
\* that is, before the "initial" message of that registration: a poll cycle
\* that broadcasts sends nothing to such a connection.
C37_InitialBeforeUpdate ==
  [][\A i \in Procs : Broadcasts(i) =>
       \A j \in Procs :
         (procs[j].kind = "register" /\ procs'[j].kind = "register") =>
           <<procs[j].ws, procs[j].team>> \notin broadcast']_vars

\* the gameweekStatus object of the "initial" and "update" messages
GameweekStatus == [current |-> gameweek.current, isFinished |-> gameweek.isFinished]

\* C38: the gameweek is resolved by initializeState when its bootstrap request
\* is answered, from that answer, and every other step (every step of a poll
\* cycle or of a team refresh included) leaves current, isCurrent and
\* isFinished, hence the gameweekStatus of the messages, unchanged.
C38_GameweekFixedAtInit ==
  [][IF initPc = "bootstrap" /\ initPc' = "fixtures"
     THEN GameweekStatus' =
            [current |-> bootstrap'.events[CurrentGwIdx(bootstrap')].id,
             isFinished |-> bootstrap'.events[CurrentGwIdx(bootstrap')].finished]
     ELSE /\ GameweekStatus' = GameweekStatus
          /\ gameweek'.isCurrent = gameweek.isCurrent]_vars

\* C38 witness: a poll cycle has just broadcast an "update" to w1 with the
\* status of gameweek 2, unfinished, as resolved at initialisation, although
\* the reference data it loaded marks gameweek 1 as the current one.
C38_Witness ==
  /\ initPc = "done"
  /\ bootstrap = BootstrapEarlier
  /\ GameweekStatus = [current |-> 2, isFinished |-> FALSE]
  /\ lastCall.op = "team" /\ initial = NoMessage
  /\ broadcast = {<<"w1", "t1">>}

\* the sockets of the service that are open or connecting
LiveSockets(f) == {k \in 1..Len(f.sockets) : f.sockets[k] \in {"connecting", "open"}}

\* C39: while the live updates are stopped (stopLiveUpdates or cleanup was
\* called and the application has not called startLiveUpdates since) the
\* service creates no WebSocket and does not invoke the score callback; and at
\* most one of the service's sockets is open or connecting.
C39_StoppedStaysStopped ==
  [][/\ (fplService.stopped /\ fplService'.stopped) =>
          /\ Len(fplService'.sockets) = Len(fplService.sockets)
          /\ fplService'.calls = fplService.calls
     /\ Cardinality(LiveSockets(fplService')) <= 1]_vars

====
